---- MODULE Spec2Model ----
(***************************************************************************)
(* Model of the metadata generator: the upload validation, the processing *)
(* orchestrator of pages/Index.tsx (handleProcessImages), the AI client    *)
(* (analyzeImageWithGemini) and the CSV formatter (formatImagesAsCSV).     *)
(*                                                                         *)
(* Text is a sequence of one-character strings.  An optional value         *)
(* (undefined in the source) is a sequence of length at most one.          *)
(***************************************************************************)
EXTENDS Integers, Sequences, FiniteSets, TLC

VARIABLES
  images,          \* Index: useState<ProcessedImage[]>
  nextId,          \* number of ids handed out by generateId
  isProcessing,    \* Index: useState(false)
  apiKey,          \* Index: useState('')
  platforms,       \* Index: useState<Platform[]>(['AdobeStock'])
  generationMode,  \* Index: useState<GenerationMode>('metadata')
  profile,         \* AuthContext: the user's profile (credits)
  runs,            \* the invocations of handleProcessImages, each with its closure
  csvImages,       \* formatImagesAsCSV: argument images
  csvFlags,        \* formatImagesAsCSV: isFreepikOnly, isShutterstock, isAdobeStock
  csvOut,          \* formatImagesAsCSV: the string returned
  rejectedNotices, \* the error notices shown: processFiles' rejected files, handleProcessImages' messages
  titleIn,         \* removeSymbolsFromTitle: argument title
  titleOut,        \* removeSymbolsFromTitle: the string returned
  catIn,           \* the category matchers: title, keywords, description
  catOut,          \* the category matchers: what each returns or throws
  aiIn,            \* analyzeImageWithGemini: file, options, what the model answers
  aiOut,           \* analyzeImageWithGemini: the result returned
  svgIn,           \* the SVG file analyzeImageWithGemini prepares
  svgOut,          \* the file it goes on with
  svgSizes,        \* the canvas sizes convertSvgToPng has used
  user_sessions,   \* the table user_sessions
  clock,           \* the time new Date() reads
  sessionReply,    \* the last response of the session function
  serverRequest,   \* the last request the companion server handled
  serverReply,     \* its response
  modelCalls,      \* the calls of generateContent made for it
  storedKey,       \* AppHeader: the 'gemini-api-key' entry of localStorage
  authApiKey,      \* the apiKey the auth context supplies ("" for none)
  inputKey         \* the text of the header's key input

vars == <<images, nextId, isProcessing, apiKey, platforms, generationMode,
          profile, runs, csvImages, csvFlags, csvOut, rejectedNotices,
          titleIn, titleOut, catIn, catOut, aiIn, aiOut, svgIn, svgOut, svgSizes,
          user_sessions, clock, sessionReply, serverRequest, serverReply, modelCalls,
          storedKey, authApiKey, inputKey>>

appVars == <<images, nextId, isProcessing, apiKey, platforms, generationMode,
             profile, runs>>

csvVars == <<csvImages, csvFlags, csvOut>>

\* The arguments and results of the functions applied on their own
titleVars == <<titleIn, titleOut>>

catVars == <<catIn, catOut>>

aiVars == <<aiIn, aiOut>>

svgVars == <<svgIn, svgOut, svgSizes>>

sessionVars == <<user_sessions, clock, sessionReply>>

serverVars == <<serverRequest, serverReply, modelCalls>>

keyVars == <<storedKey, authApiKey, inputKey>>

pureVars == <<titleVars, catVars, aiVars, svgVars, sessionVars, serverVars, keyVars>>

\* What the handlers of the page leave alone
sideVars == <<csvImages, csvFlags, csvOut, rejectedNotices, pureVars>>

\* ------------------------------------------------------------------ bounds

MaxUploads == 3

MaxRuns == 2

MaxCsvImages == 2

\* The longest title removeSymbolsFromTitle is applied to
MaxTitleLen == 3

\* ------------------------------------------------------- optional values

None == <<>>

Some(v) == <<v>>

\* x || d of the source, for an optional x whose defined values are truthy or d
OrElse(x, d) == IF x = None THEN d ELSE x[1]

\* ------------------------------------------------------------------ text

\* Array.prototype.join
RECURSIVE Join(_, _)
Join(ss, sep) ==
  IF ss = <<>> THEN <<>>
  ELSE IF Len(ss) = 1 THEN ss[1]
  ELSE ss[1] \o sep \o Join(Tail(ss), sep)

Lower == {"a","b","c","d","e","f","g","h","i","j","k","l","m",
          "n","o","p","q","r","s","t","u","v","w","x","y","z"}

Upper == {"A","B","C","D","E","F","G","H","I","J","K","L","M",
          "N","O","P","Q","R","S","T","U","V","W","X","Y","Z"}

Digit == {"0","1","2","3","4","5","6","7","8","9"}

\* \w of a JavaScript regular expression
WordChar == Lower \cup Upper \cup Digit \cup {"_"}

\* \s of a JavaScript regular expression (the characters the model uses)
SpaceChar == {" ", "\t", "\n", "\r"}

RECURSIVE Filter(_, _)
Filter(s, keep) ==
  IF s = <<>> THEN <<>>
  ELSE IF Head(s) \in keep THEN <<Head(s)>> \o Filter(Tail(s), keep)
  ELSE Filter(Tail(s), keep)

\* title.replace(/[^\w\s.,()-]/g, '')
removeSymbolsFromTitle(title) ==
  Filter(title, WordChar \cup SpaceChar \cup {".", ",", "(", ")", "-"})

RECURSIVE TrimStart(_)
TrimStart(s) ==
  IF s # <<>> /\ Head(s) \in SpaceChar THEN TrimStart(Tail(s)) ELSE s

RECURSIVE TrimEnd(_)
TrimEnd(s) ==
  IF s # <<>> /\ s[Len(s)] \in SpaceChar THEN TrimEnd(SubSeq(s, 1, Len(s) - 1)) ELSE s

\* String.prototype.trim
Trim(s) == TrimEnd(TrimStart(s))

LowerSeq == <<"a","b","c","d","e","f","g","h","i","j","k","l","m",
              "n","o","p","q","r","s","t","u","v","w","x","y","z">>

UpperSeq == <<"A","B","C","D","E","F","G","H","I","J","K","L","M",
              "N","O","P","Q","R","S","T","U","V","W","X","Y","Z">>

LowerChar(c) ==
  IF c \in Upper THEN LowerSeq[CHOOSE i \in 1..26 : UpperSeq[i] = c] ELSE c

\* String.prototype.toLowerCase
ToLowerCase(s) == [i \in 1..Len(s) |-> LowerChar(s[i])]

\* ----------------------------------------------------------------- files

\* A File: its name, its MIME type as <<type, subtype>> (the string
\* type/subtype) and its size in bytes as gib * 2^30 + rem.
MaxSizeGB == 10

Mime(major, minor) == <<major, minor>>

acceptedTypes ==
  { Mime("image", "jpeg"), Mime("image", "png"), Mime("image", "jpg"),
    Mime("image", "webp"), Mime("image", "svg+xml"),
    Mime("application", "postscript"), Mime("application", "eps"),
    Mime("application", "x-eps"), Mime("image", "eps"),
    Mime("application", "illustrator"),
    Mime("video", "mp4"), Mime("video", "quicktime"), Mime("video", "x-msvideo"),
    Mime("video", "mpeg"), Mime("video", "webm"), Mime("video", "x-matroska") }

isValidMediaType_acceptAll(file) == TRUE

isValidMediaType(file) == file.type \in acceptedTypes

\* file.size <= maxSizeGB * 1024 * 1024 * 1024
isValidFileSize(file, maxSizeGB) ==
  \/ file.gib < maxSizeGB
  \/ file.gib = maxSizeGB /\ file.rem = 0

\* file.type.startsWith('video/')
IsVideoType(file) == file.type[1] = "video"

\* The files the user picks from: a photo of exactly 10 GB, a video, a PDF
\* and a picture one byte above 10 GB.
PhotoJpg == [name |-> <<"a", ".", "j", "p", "g">>, type |-> Mime("image", "jpeg"),
             gib |-> 10, rem |-> 0]

ClipMp4 == [name |-> <<"c", ".", "m", "p", "4">>, type |-> Mime("video", "mp4"),
            gib |-> 0, rem |-> 2048]

DocPdf == [name |-> <<"d", ".", "p", "d", "f">>, type |-> Mime("application", "pdf"),
           gib |-> 0, rem |-> 2048]

HugePng == [name |-> <<"h", ".", "p", "n", "g">>, type |-> Mime("image", "png"),
            gib |-> 10, rem |-> 1]

Files == {PhotoJpg, DocPdf, HugePng}

\* The FileLists the user drops or selects: one file, or the photo and a
\* second file
FileLists == {<<f>> : f \in Files} \cup {<<PhotoJpg, g>> : g \in Files}

\* ---------------------------------------------------- category matchers

shutterstockCategories ==
  <<
    <<"A","b","s","t","r","a","c","t">>,
    <<"A","n","i","m","a","l","s","/","W","i","l","d","l","i","f","e">>,
    <<"A","r","t","s">>,
    <<"B","a","c","k","g","r","o","u","n","d","s","/","T","e","x","t","u","r","e","s">>,
    <<"B","e","a","u","t","y","/","F","a","s","h","i","o","n">>,
    <<"B","u","i","l","d","i","n","g","s","/","L","a","n","d","m","a","r","k","s">>,
    <<"B","u","s","i","n","e","s","s","/","F","i","n","a","n","c","e">>,
    <<"C","e","l","e","b","r","i","t","i","e","s">>,
    <<"E","d","u","c","a","t","i","o","n">>,
    <<"F","o","o","d"," ","a","n","d"," ","d","r","i","n","k">>,
    <<"H","e","a","l","t","h","c","a","r","e","/","M","e","d","i","c","a","l">>,
    <<"H","o","l","i","d","a","y","s">>,
    <<"I","n","d","u","s","t","r","i","a","l">>,
    <<"I","n","t","e","r","i","o","r","s">>,
    <<"M","i","s","c","e","l","l","a","n","e","o","u","s">>,
    <<"N","a","t","u","r","e">>,
    <<"O","b","j","e","c","t","s">>,
    <<"P","a","r","k","s","/","O","u","t","d","o","o","r">>,
    <<"P","e","o","p","l","e">>,
    <<"R","e","l","i","g","i","o","n">>,
    <<"S","c","i","e","n","c","e">>,
    <<"S","i","g","n","s","/","S","y","m","b","o","l","s">>,
    <<"S","p","o","r","t","s","/","R","e","c","r","e","a","t","i","o","n">>,
    <<"T","e","c","h","n","o","l","o","g","y">>,
    <<"T","r","a","n","s","p","o","r","t","a","t","i","o","n">>,
    <<"V","i","n","t","a","g","e">>
  >>

adobeStockCategories ==
  <<
    <<"A","n","i","m","a","l","s">>,
    <<"B","u","i","l","d","i","n","g","s"," ","a","n","d"," ","A","r","c","h","i","t","e","c","t","u","r","e">>,
    <<"B","u","s","i","n","e","s","s">>,
    <<"D","r","i","n","k","s">>,
    <<"T","h","e"," ","E","n","v","i","r","o","n","m","e","n","t">>,
    <<"S","t","a","t","e","s"," ","o","f"," ","M","i","n","d">>,
    <<"F","o","o","d">>,
    <<"G","r","a","p","h","i","c"," ","R","e","s","o","u","r","c","e","s">>,
    <<"H","o","b","b","i","e","s"," ","a","n","d"," ","L","e","i","s","u","r","e">>,
    <<"I","n","d","u","s","t","r","y">>,
    <<"L","a","n","d","s","c","a","p","e","s">>,
    <<"L","i","f","e","s","t","y","l","e">>,
    <<"P","e","o","p","l","e">>,
    <<"P","l","a","n","t","s"," ","a","n","d"," ","F","l","o","w","e","r","s">>,
    <<"C","u","l","t","u","r","e"," ","a","n","d"," ","R","e","l","i","g","i","o","n">>,
    <<"S","c","i","e","n","c","e">>,
    <<"S","o","c","i","a","l"," ","I","s","s","u","e","s">>,
    <<"S","p","o","r","t","s">>,
    <<"T","e","c","h","n","o","l","o","g","y">>,
    <<"T","r","a","n","s","p","o","r","t">>,
    <<"T","r","a","v","e","l">>
  >>

adobeStockCategoryEntries ==
  <<
    <<<<"a","n","i","m","a","l">>,
      <<<<"A","n","i","m","a","l","s">>>> >>,
    <<<<"w","i","l","d","l","i","f","e">>,
      <<<<"A","n","i","m","a","l","s">>>> >>,
    <<<<"p","e","t">>,
      <<<<"A","n","i","m","a","l","s">>>> >>,
    <<<<"d","o","g">>,
      <<<<"A","n","i","m","a","l","s">>>> >>,
    <<<<"c","a","t">>,
      <<<<"A","n","i","m","a","l","s">>>> >>,
    <<<<"b","i","r","d">>,
      <<<<"A","n","i","m","a","l","s">>>> >>,
    <<<<"f","i","s","h">>,
      <<<<"A","n","i","m","a","l","s">>>> >>,
    <<<<"h","o","r","s","e">>,
      <<<<"A","n","i","m","a","l","s">>>> >>,
    <<<<"m","a","m","m","a","l">>,
      <<<<"A","n","i","m","a","l","s">>>> >>,
    <<<<"r","e","p","t","i","l","e">>,
      <<<<"A","n","i","m","a","l","s">>>> >>,
    <<<<"b","u","i","l","d","i","n","g">>,
      <<<<"B","u","i","l","d","i","n","g","s"," ","a","n","d"," ","A","r","c","h","i","t","e","c","t","u","r","e">>>> >>,
    <<<<"a","r","c","h","i","t","e","c","t","u","r","e">>,
      <<<<"B","u","i","l","d","i","n","g","s"," ","a","n","d"," ","A","r","c","h","i","t","e","c","t","u","r","e">>>> >>,
    <<<<"h","o","u","s","e">>,
      <<<<"B","u","i","l","d","i","n","g","s"," ","a","n","d"," ","A","r","c","h","i","t","e","c","t","u","r","e">>>> >>,
    <<<<"s","k","y","s","c","r","a","p","e","r">>,
      <<<<"B","u","i","l","d","i","n","g","s"," ","a","n","d"," ","A","r","c","h","i","t","e","c","t","u","r","e">>>> >>,
    <<<<"t","o","w","e","r">>,
      <<<<"B","u","i","l","d","i","n","g","s"," ","a","n","d"," ","A","r","c","h","i","t","e","c","t","u","r","e">>>> >>,
    <<<<"m","o","n","u","m","e","n","t">>,
      <<<<"B","u","i","l","d","i","n","g","s"," ","a","n","d"," ","A","r","c","h","i","t","e","c","t","u","r","e">>>> >>,
    <<<<"b","r","i","d","g","e">>,
      <<<<"B","u","i","l","d","i","n","g","s"," ","a","n","d"," ","A","r","c","h","i","t","e","c","t","u","r","e">>>> >>,
    <<<<"c","o","n","s","t","r","u","c","t","i","o","n">>,
      <<<<"B","u","i","l","d","i","n","g","s"," ","a","n","d"," ","A","r","c","h","i","t","e","c","t","u","r","e">>>> >>,
    <<<<"a","p","a","r","t","m","e","n","t">>,
      <<<<"B","u","i","l","d","i","n","g","s"," ","a","n","d"," ","A","r","c","h","i","t","e","c","t","u","r","e">>>> >>,
    <<<<"b","u","s","i","n","e","s","s">>,
      <<<<"B","u","s","i","n","e","s","s">>>> >>,
    <<<<"o","f","f","i","c","e">>,
      <<<<"B","u","s","i","n","e","s","s">>>> >>,
    <<<<"m","e","e","t","i","n","g">>,
      <<<<"B","u","s","i","n","e","s","s">>>> >>,
    <<<<"p","r","o","f","e","s","s","i","o","n","a","l">>,
      <<<<"B","u","s","i","n","e","s","s">>>> >>,
    <<<<"c","o","r","p","o","r","a","t","e">>,
      <<<<"B","u","s","i","n","e","s","s">>>> >>,
    <<<<"f","i","n","a","n","c","e">>,
      <<<<"B","u","s","i","n","e","s","s">>>> >>,
    <<<<"e","c","o","n","o","m","y">>,
      <<<<"B","u","s","i","n","e","s","s">>>> >>,
    <<<<"m","a","n","a","g","e","m","e","n","t">>,
      <<<<"B","u","s","i","n","e","s","s">>>> >>,
    <<<<"e","n","t","r","e","p","r","e","n","e","u","r">>,
      <<<<"B","u","s","i","n","e","s","s">>>> >>,
    <<<<"s","t","a","r","t","u","p">>,
      <<<<"B","u","s","i","n","e","s","s">>>> >>,
    <<<<"d","r","i","n","k">>,
      <<<<"D","r","i","n","k","s">>>> >>,
    <<<<"b","e","v","e","r","a","g","e">>,
      <<<<"D","r","i","n","k","s">>>> >>,
    <<<<"c","o","f","f","e","e">>,
      <<<<"D","r","i","n","k","s">>>> >>,
    <<<<"t","e","a">>,
      <<<<"D","r","i","n","k","s">>>> >>,
    <<<<"w","i","n","e">>,
      <<<<"D","r","i","n","k","s">>>> >>,
    <<<<"b","e","e","r">>,
      <<<<"D","r","i","n","k","s">>>> >>,
    <<<<"c","o","c","k","t","a","i","l">>,
      <<<<"D","r","i","n","k","s">>>> >>,
    <<<<"j","u","i","c","e">>,
      <<<<"D","r","i","n","k","s">>>> >>,
    <<<<"a","l","c","o","h","o","l">>,
      <<<<"D","r","i","n","k","s">>>> >>,
    <<<<"w","a","t","e","r">>,
      <<<<"D","r","i","n","k","s">>>> >>,
    <<<<"e","n","v","i","r","o","n","m","e","n","t">>,
      <<<<"T","h","e"," ","E","n","v","i","r","o","n","m","e","n","t">>>> >>,
    <<<<"n","a","t","u","r","e">>,
      <<<<"T","h","e"," ","E","n","v","i","r","o","n","m","e","n","t">>>> >>,
    <<<<"e","c","o","l","o","g","y">>,
      <<<<"T","h","e"," ","E","n","v","i","r","o","n","m","e","n","t">>>> >>,
    <<<<"e","c","o","s","y","s","t","e","m">>,
      <<<<"T","h","e"," ","E","n","v","i","r","o","n","m","e","n","t">>>> >>,
    <<<<"s","u","s","t","a","i","n","a","b","l","e">>,
      <<<<"T","h","e"," ","E","n","v","i","r","o","n","m","e","n","t">>>> >>,
    <<<<"g","r","e","e","n">>,
      <<<<"T","h","e"," ","E","n","v","i","r","o","n","m","e","n","t">>>> >>,
    <<<<"c","l","i","m","a","t","e">>,
      <<<<"T","h","e"," ","E","n","v","i","r","o","n","m","e","n","t">>>> >>,
    <<<<"p","o","l","l","u","t","i","o","n">>,
      <<<<"T","h","e"," ","E","n","v","i","r","o","n","m","e","n","t">>>> >>,
    <<<<"c","o","n","s","e","r","v","a","t","i","o","n">>,
      <<<<"T","h","e"," ","E","n","v","i","r","o","n","m","e","n","t">>>> >>,
    <<<<"r","e","n","e","w","a","b","l","e">>,
      <<<<"T","h","e"," ","E","n","v","i","r","o","n","m","e","n","t">>>> >>,
    <<<<"e","m","o","t","i","o","n">>,
      <<<<"S","t","a","t","e","s"," ","o","f"," ","M","i","n","d">>>> >>,
    <<<<"f","e","e","l","i","n","g">>,
      <<<<"S","t","a","t","e","s"," ","o","f"," ","M","i","n","d">>>> >>,
    <<<<"h","a","p","p","i","n","e","s","s">>,
      <<<<"S","t","a","t","e","s"," ","o","f"," ","M","i","n","d">>>> >>,
    <<<<"s","a","d","n","e","s","s">>,
      <<<<"S","t","a","t","e","s"," ","o","f"," ","M","i","n","d">>>> >>,
    <<<<"d","e","p","r","e","s","s","i","o","n">>,
      <<<<"S","t","a","t","e","s"," ","o","f"," ","M","i","n","d">>>> >>,
    <<<<"a","n","x","i","e","t","y">>,
      <<<<"S","t","a","t","e","s"," ","o","f"," ","M","i","n","d">>>> >>,
    <<<<"s","t","r","e","s","s">>,
      <<<<"S","t","a","t","e","s"," ","o","f"," ","M","i","n","d">>>> >>,
    <<<<"j","o","y">>,
      <<<<"S","t","a","t","e","s"," ","o","f"," ","M","i","n","d">>>> >>,
    <<<<"f","e","a","r">>,
      <<<<"S","t","a","t","e","s"," ","o","f"," ","M","i","n","d">>>> >>,
    <<<<"l","o","v","e">>,
      <<<<"S","t","a","t","e","s"," ","o","f"," ","M","i","n","d">>>> >>,
    <<<<"f","o","o","d">>,
      <<<<"F","o","o","d">>>> >>,
    <<<<"m","e","a","l">>,
      <<<<"F","o","o","d">>>> >>,
    <<<<"c","u","i","s","i","n","e">>,
      <<<<"F","o","o","d">>>> >>,
    <<<<"r","e","s","t","a","u","r","a","n","t">>,
      <<<<"F","o","o","d">>>> >>,
    <<<<"d","i","n","n","e","r">>,
      <<<<"F","o","o","d">>>> >>,
    <<<<"l","u","n","c","h">>,
      <<<<"F","o","o","d">>>> >>,
    <<<<"b","r","e","a","k","f","a","s","t">>,
      <<<<"F","o","o","d">>>> >>,
    <<<<"c","o","o","k","i","n","g">>,
      <<<<"F","o","o","d">>>> >>,
    <<<<"f","r","u","i","t">>,
      <<<<"F","o","o","d">>>> >>,
    <<<<"v","e","g","e","t","a","b","l","e">>,
      <<<<"F","o","o","d">>>> >>,
    <<<<"g","r","a","p","h","i","c">>,
      <<<<"G","r","a","p","h","i","c"," ","R","e","s","o","u","r","c","e","s">>>> >>,
    <<<<"d","e","s","i","g","n">>,
      <<<<"G","r","a","p","h","i","c"," ","R","e","s","o","u","r","c","e","s">>>> >>,
    <<<<"i","l","l","u","s","t","r","a","t","i","o","n">>,
      <<<<"G","r","a","p","h","i","c"," ","R","e","s","o","u","r","c","e","s">>>> >>,
    <<<<"v","e","c","t","o","r">>,
      <<<<"G","r","a","p","h","i","c"," ","R","e","s","o","u","r","c","e","s">>>> >>,
    <<<<"f","o","n","t">>,
      <<<<"G","r","a","p","h","i","c"," ","R","e","s","o","u","r","c","e","s">>>> >>,
    <<<<"t","y","p","o","g","r","a","p","h","y">>,
      <<<<"G","r","a","p","h","i","c"," ","R","e","s","o","u","r","c","e","s">>>> >>,
    <<<<"i","c","o","n">>,
      <<<<"G","r","a","p","h","i","c"," ","R","e","s","o","u","r","c","e","s">>>> >>,
    <<<<"l","o","g","o">>,
      <<<<"G","r","a","p","h","i","c"," ","R","e","s","o","u","r","c","e","s">>>> >>,
    <<<<"p","a","t","t","e","r","n">>,
      <<<<"G","r","a","p","h","i","c"," ","R","e","s","o","u","r","c","e","s">>>> >>,
    <<<<"t","e","m","p","l","a","t","e">>,
      <<<<"G","r","a","p","h","i","c"," ","R","e","s","o","u","r","c","e","s">>>> >>,
    <<<<"h","o","b","b","y">>,
      <<<<"H","o","b","b","i","e","s"," ","a","n","d"," ","L","e","i","s","u","r","e">>>> >>,
    <<<<"l","e","i","s","u","r","e">>,
      <<<<"H","o","b","b","i","e","s"," ","a","n","d"," ","L","e","i","s","u","r","e">>>> >>,
    <<<<"r","e","c","r","e","a","t","i","o","n">>,
      <<<<"H","o","b","b","i","e","s"," ","a","n","d"," ","L","e","i","s","u","r","e">>>> >>,
    <<<<"g","a","m","e">>,
      <<<<"H","o","b","b","i","e","s"," ","a","n","d"," ","L","e","i","s","u","r","e">>>> >>,
    <<<<"c","r","a","f","t">>,
      <<<<"H","o","b","b","i","e","s"," ","a","n","d"," ","L","e","i","s","u","r","e">>>> >>,
    <<<<"d","i","y">>,
      <<<<"H","o","b","b","i","e","s"," ","a","n","d"," ","L","e","i","s","u","r","e">>>> >>,
    <<<<"g","a","r","d","e","n","i","n","g">>,
      <<<<"H","o","b","b","i","e","s"," ","a","n","d"," ","L","e","i","s","u","r","e">>>> >>,
    <<<<"r","e","a","d","i","n","g">>,
      <<<<"H","o","b","b","i","e","s"," ","a","n","d"," ","L","e","i","s","u","r","e">>>> >>,
    <<<<"m","u","s","i","c">>,
      <<<<"H","o","b","b","i","e","s"," ","a","n","d"," ","L","e","i","s","u","r","e">>>> >>,
    <<<<"e","n","t","e","r","t","a","i","n","m","e","n","t">>,
      <<<<"H","o","b","b","i","e","s"," ","a","n","d"," ","L","e","i","s","u","r","e">>>> >>,
    <<<<"i","n","d","u","s","t","r","y">>,
      <<<<"I","n","d","u","s","t","r","y">>>> >>,
    <<<<"f","a","c","t","o","r","y">>,
      <<<<"I","n","d","u","s","t","r","y">>>> >>,
    <<<<"m","a","n","u","f","a","c","t","u","r","i","n","g">>,
      <<<<"I","n","d","u","s","t","r","y">>>> >>,
    <<<<"p","r","o","d","u","c","t","i","o","n">>,
      <<<<"I","n","d","u","s","t","r","y">>>> >>,
    <<<<"w","a","r","e","h","o","u","s","e">>,
      <<<<"I","n","d","u","s","t","r","y">>>> >>,
    <<<<"m","a","c","h","i","n","e","r","y">>,
      <<<<"I","n","d","u","s","t","r","y">>>> >>,
    <<<<"i","n","d","u","s","t","r","i","a","l">>,
      <<<<"I","n","d","u","s","t","r","y">>>> >>,
    <<<<"e","n","g","i","n","e","e","r","i","n","g">>,
      <<<<"I","n","d","u","s","t","r","y">>>> >>,
    <<<<"m","i","n","i","n","g">>,
      <<<<"I","n","d","u","s","t","r","y">>>> >>,
    <<<<"a","u","t","o","m","a","t","i","o","n">>,
      <<<<"I","n","d","u","s","t","r","y">>>> >>,
    <<<<"l","a","n","d","s","c","a","p","e">>,
      <<<<"L","a","n","d","s","c","a","p","e","s">>>> >>,
    <<<<"m","o","u","n","t","a","i","n">>,
      <<<<"L","a","n","d","s","c","a","p","e","s">>>> >>,
    <<<<"v","a","l","l","e","y">>,
      <<<<"L","a","n","d","s","c","a","p","e","s">>>> >>,
    <<<<"h","i","l","l">>,
      <<<<"L","a","n","d","s","c","a","p","e","s">>>> >>,
    <<<<"d","e","s","e","r","t">>,
      <<<<"L","a","n","d","s","c","a","p","e","s">>>> >>,
    <<<<"f","o","r","e","s","t">>,
      <<<<"L","a","n","d","s","c","a","p","e","s">>>> >>,
    <<<<"b","e","a","c","h">>,
      <<<<"L","a","n","d","s","c","a","p","e","s">>>> >>,
    <<<<"o","c","e","a","n">>,
      <<<<"L","a","n","d","s","c","a","p","e","s">>>> >>,
    <<<<"s","e","a">>,
      <<<<"L","a","n","d","s","c","a","p","e","s">>>> >>,
    <<<<"r","i","v","e","r">>,
      <<<<"L","a","n","d","s","c","a","p","e","s">>>> >>,
    <<<<"l","i","f","e","s","t","y","l","e">>,
      <<<<"L","i","f","e","s","t","y","l","e">>>> >>,
    <<<<"f","a","s","h","i","o","n">>,
      <<<<"L","i","f","e","s","t","y","l","e">>>> >>,
    <<<<"b","e","a","u","t","y">>,
      <<<<"L","i","f","e","s","t","y","l","e">>>> >>,
    <<<<"t","r","e","n","d">>,
      <<<<"L","i","f","e","s","t","y","l","e">>>> >>,
    <<<<"s","t","y","l","e">>,
      <<<<"L","i","f","e","s","t","y","l","e">>>> >>,
    <<<<"l","u","x","u","r","y">>,
      <<<<"L","i","f","e","s","t","y","l","e">>>> >>,
    <<<<"w","e","l","l","n","e","s","s">>,
      <<<<"L","i","f","e","s","t","y","l","e">>>> >>,
    <<<<"h","e","a","l","t","h">>,
      <<<<"L","i","f","e","s","t","y","l","e">>>> >>,
    <<<<"e","x","e","r","c","i","s","e">>,
      <<<<"L","i","f","e","s","t","y","l","e">>>> >>,
    <<<<"h","o","m","e">>,
      <<<<"L","i","f","e","s","t","y","l","e">>>> >>,
    <<<<"p","e","o","p","l","e">>,
      <<<<"P","e","o","p","l","e">>>> >>,
    <<<<"p","e","r","s","o","n">>,
      <<<<"P","e","o","p","l","e">>>> >>,
    <<<<"m","a","n">>,
      <<<<"P","e","o","p","l","e">>>> >>,
    <<<<"w","o","m","a","n">>,
      <<<<"P","e","o","p","l","e">>>> >>,
    <<<<"c","h","i","l","d">>,
      <<<<"P","e","o","p","l","e">>>> >>,
    <<<<"f","a","m","i","l","y">>,
      <<<<"P","e","o","p","l","e">>>> >>,
    <<<<"p","o","r","t","r","a","i","t">>,
      <<<<"P","e","o","p","l","e">>>> >>,
    <<<<"c","r","o","w","d">>,
      <<<<"P","e","o","p","l","e">>>> >>,
    <<<<"h","u","m","a","n">>,
      <<<<"P","e","o","p","l","e">>>> >>,
    <<<<"a","d","u","l","t">>,
      <<<<"P","e","o","p","l","e">>>> >>,
    <<<<"p","l","a","n","t">>,
      <<<<"P","l","a","n","t","s"," ","a","n","d"," ","F","l","o","w","e","r","s">>>> >>,
    <<<<"f","l","o","w","e","r">>,
      <<<<"P","l","a","n","t","s"," ","a","n","d"," ","F","l","o","w","e","r","s">>>> >>,
    <<<<"t","r","e","e">>,
      <<<<"P","l","a","n","t","s"," ","a","n","d"," ","F","l","o","w","e","r","s">>>> >>,
    <<<<"g","a","r","d","e","n">>,
      <<<<"P","l","a","n","t","s"," ","a","n","d"," ","F","l","o","w","e","r","s">>>> >>,
    <<<<"b","o","t","a","n","i","c","a","l">>,
      <<<<"P","l","a","n","t","s"," ","a","n","d"," ","F","l","o","w","e","r","s">>>> >>,
    <<<<"f","l","o","r","a","l">>,
      <<<<"P","l","a","n","t","s"," ","a","n","d"," ","F","l","o","w","e","r","s">>>> >>,
    <<<<"h","e","r","b">>,
      <<<<"P","l","a","n","t","s"," ","a","n","d"," ","F","l","o","w","e","r","s">>>> >>,
    <<<<"l","e","a","f">>,
      <<<<"P","l","a","n","t","s"," ","a","n","d"," ","F","l","o","w","e","r","s">>>> >>,
    <<<<"b","u","s","h">>,
      <<<<"P","l","a","n","t","s"," ","a","n","d"," ","F","l","o","w","e","r","s">>>> >>,
    <<<<"g","r","a","s","s">>,
      <<<<"P","l","a","n","t","s"," ","a","n","d"," ","F","l","o","w","e","r","s">>>> >>,
    <<<<"c","u","l","t","u","r","e">>,
      <<<<"C","u","l","t","u","r","e"," ","a","n","d"," ","R","e","l","i","g","i","o","n">>>> >>,
    <<<<"r","e","l","i","g","i","o","n">>,
      <<<<"C","u","l","t","u","r","e"," ","a","n","d"," ","R","e","l","i","g","i","o","n">>>> >>,
    <<<<"f","a","i","t","h">>,
      <<<<"C","u","l","t","u","r","e"," ","a","n","d"," ","R","e","l","i","g","i","o","n">>>> >>,
    <<<<"t","r","a","d","i","t","i","o","n">>,
      <<<<"C","u","l","t","u","r","e"," ","a","n","d"," ","R","e","l","i","g","i","o","n">>>> >>,
    <<<<"h","e","r","i","t","a","g","e">>,
      <<<<"C","u","l","t","u","r","e"," ","a","n","d"," ","R","e","l","i","g","i","o","n">>>> >>,
    <<<<"r","i","t","u","a","l">>,
      <<<<"C","u","l","t","u","r","e"," ","a","n","d"," ","R","e","l","i","g","i","o","n">>>> >>,
    <<<<"c","e","r","e","m","o","n","y">>,
      <<<<"C","u","l","t","u","r","e"," ","a","n","d"," ","R","e","l","i","g","i","o","n">>>> >>,
    <<<<"w","o","r","s","h","i","p">>,
      <<<<"C","u","l","t","u","r","e"," ","a","n","d"," ","R","e","l","i","g","i","o","n">>>> >>,
    <<<<"f","e","s","t","i","v","a","l">>,
      <<<<"C","u","l","t","u","r","e"," ","a","n","d"," ","R","e","l","i","g","i","o","n">>>> >>,
    <<<<"c","e","l","e","b","r","a","t","i","o","n">>,
      <<<<"C","u","l","t","u","r","e"," ","a","n","d"," ","R","e","l","i","g","i","o","n">>>> >>,
    <<<<"s","c","i","e","n","c","e">>,
      <<<<"S","c","i","e","n","c","e">>>> >>,
    <<<<"r","e","s","e","a","r","c","h">>,
      <<<<"S","c","i","e","n","c","e">>>> >>,
    <<<<"l","a","b","o","r","a","t","o","r","y">>,
      <<<<"S","c","i","e","n","c","e">>>> >>,
    <<<<"e","x","p","e","r","i","m","e","n","t">>,
      <<<<"S","c","i","e","n","c","e">>>> >>,
    <<<<"c","h","e","m","i","s","t","r","y">>,
      <<<<"S","c","i","e","n","c","e">>>> >>,
    <<<<"p","h","y","s","i","c","s">>,
      <<<<"S","c","i","e","n","c","e">>>> >>,
    <<<<"b","i","o","l","o","g","y">>,
      <<<<"S","c","i","e","n","c","e">>>> >>,
    <<<<"m","e","d","i","c","i","n","e">>,
      <<<<"S","c","i","e","n","c","e">>>> >>,
    <<<<"i","n","n","o","v","a","t","i","o","n">>,
      <<<<"S","c","i","e","n","c","e">>>> >>,
    <<<<"s","o","c","i","a","l">>,
      <<<<"S","o","c","i","a","l"," ","I","s","s","u","e","s">>>> >>,
    <<<<"i","s","s","u","e">>,
      <<<<"S","o","c","i","a","l"," ","I","s","s","u","e","s">>>> >>,
    <<<<"p","o","v","e","r","t","y">>,
      <<<<"S","o","c","i","a","l"," ","I","s","s","u","e","s">>>> >>,
    <<<<"i","n","e","q","u","a","l","i","t","y">>,
      <<<<"S","o","c","i","a","l"," ","I","s","s","u","e","s">>>> >>,
    <<<<"d","i","s","c","r","i","m","i","n","a","t","i","o","n">>,
      <<<<"S","o","c","i","a","l"," ","I","s","s","u","e","s">>>> >>,
    <<<<"p","r","o","t","e","s","t">>,
      <<<<"S","o","c","i","a","l"," ","I","s","s","u","e","s">>>> >>,
    <<<<"a","c","t","i","v","i","s","m">>,
      <<<<"S","o","c","i","a","l"," ","I","s","s","u","e","s">>>> >>,
    <<<<"c","o","m","m","u","n","i","t","y">>,
      <<<<"S","o","c","i","a","l"," ","I","s","s","u","e","s">>>> >>,
    <<<<"d","i","v","e","r","s","i","t","y">>,
      <<<<"S","o","c","i","a","l"," ","I","s","s","u","e","s">>>> >>,
    <<<<"i","n","c","l","u","s","i","o","n">>,
      <<<<"S","o","c","i","a","l"," ","I","s","s","u","e","s">>>> >>,
    <<<<"s","p","o","r","t">>,
      <<<<"S","p","o","r","t","s">>>> >>,
    <<<<"a","t","h","l","e","t","e">>,
      <<<<"S","p","o","r","t","s">>>> >>,
    <<<<"c","o","m","p","e","t","i","t","i","o","n">>,
      <<<<"S","p","o","r","t","s">>>> >>,
    <<<<"f","o","o","t","b","a","l","l">>,
      <<<<"S","p","o","r","t","s">>>> >>,
    <<<<"s","o","c","c","e","r">>,
      <<<<"S","p","o","r","t","s">>>> >>,
    <<<<"b","a","s","k","e","t","b","a","l","l">>,
      <<<<"S","p","o","r","t","s">>>> >>,
    <<<<"t","e","n","n","i","s">>,
      <<<<"S","p","o","r","t","s">>>> >>,
    <<<<"s","w","i","m","m","i","n","g">>,
      <<<<"S","p","o","r","t","s">>>> >>,
    <<<<"r","u","n","n","i","n","g">>,
      <<<<"S","p","o","r","t","s">>>> >>,
    <<<<"f","i","t","n","e","s","s">>,
      <<<<"S","p","o","r","t","s">>>> >>,
    <<<<"t","e","c","h","n","o","l","o","g","y">>,
      <<<<"T","e","c","h","n","o","l","o","g","y">>>> >>,
    <<<<"d","i","g","i","t","a","l">>,
      <<<<"T","e","c","h","n","o","l","o","g","y">>>> >>,
    <<<<"c","o","m","p","u","t","e","r">>,
      <<<<"T","e","c","h","n","o","l","o","g","y">>>> >>,
    <<<<"e","l","e","c","t","r","o","n","i","c">>,
      <<<<"T","e","c","h","n","o","l","o","g","y">>>> >>,
    <<<<"d","e","v","i","c","e">>,
      <<<<"T","e","c","h","n","o","l","o","g","y">>>> >>,
    <<<<"s","o","f","t","w","a","r","e">>,
      <<<<"T","e","c","h","n","o","l","o","g","y">>>> >>,
    <<<<"h","a","r","d","w","a","r","e">>,
      <<<<"T","e","c","h","n","o","l","o","g","y">>>> >>,
    <<<<"i","n","t","e","r","n","e","t">>,
      <<<<"T","e","c","h","n","o","l","o","g","y">>>> >>,
    <<<<"m","o","b","i","l","e">>,
      <<<<"T","e","c","h","n","o","l","o","g","y">>>> >>,
    <<<<"t","e","c","h">>,
      <<<<"T","e","c","h","n","o","l","o","g","y">>>> >>,
    <<<<"t","r","a","n","s","p","o","r","t">>,
      <<<<"T","r","a","n","s","p","o","r","t">>>> >>,
    <<<<"v","e","h","i","c","l","e">>,
      <<<<"T","r","a","n","s","p","o","r","t">>>> >>,
    <<<<"c","a","r">>,
      <<<<"T","r","a","n","s","p","o","r","t">>>> >>,
    <<<<"b","u","s">>,
      <<<<"T","r","a","n","s","p","o","r","t">>>> >>,
    <<<<"t","r","a","i","n">>,
      <<<<"T","r","a","n","s","p","o","r","t">>>> >>,
    <<<<"a","i","r","c","r","a","f","t">>,
      <<<<"T","r","a","n","s","p","o","r","t">>>> >>,
    <<<<"a","i","r","p","l","a","n","e">>,
      <<<<"T","r","a","n","s","p","o","r","t">>>> >>,
    <<<<"s","h","i","p">>,
      <<<<"T","r","a","n","s","p","o","r","t">>>> >>,
    <<<<"b","i","c","y","c","l","e">>,
      <<<<"T","r","a","n","s","p","o","r","t">>>> >>,
    <<<<"m","o","t","o","r","c","y","c","l","e">>,
      <<<<"T","r","a","n","s","p","o","r","t">>>> >>,
    <<<<"t","r","a","v","e","l">>,
      <<<<"T","r","a","v","e","l">>>> >>,
    <<<<"t","o","u","r","i","s","m">>,
      <<<<"T","r","a","v","e","l">>>> >>,
    <<<<"v","a","c","a","t","i","o","n">>,
      <<<<"T","r","a","v","e","l">>>> >>,
    <<<<"h","o","l","i","d","a","y">>,
      <<<<"T","r","a","v","e","l">>>> >>,
    <<<<"a","d","v","e","n","t","u","r","e">>,
      <<<<"T","r","a","v","e","l">>>> >>,
    <<<<"e","x","p","l","o","r","a","t","i","o","n">>,
      <<<<"T","r","a","v","e","l">>>> >>,
    <<<<"d","e","s","t","i","n","a","t","i","o","n">>,
      <<<<"T","r","a","v","e","l">>>> >>,
    <<<<"t","o","u","r","i","s","t">>,
      <<<<"T","r","a","v","e","l">>>> >>,
    <<<<"j","o","u","r","n","e","y">>,
      <<<<"T","r","a","v","e","l">>>> >>,
    <<<<"t","r","i","p">>,
      <<<<"T","r","a","v","e","l">>>> >>
  >>

shutterstockCategoryEntries ==
  <<
    <<<<"a","b","s","t","r","a","c","t">>,
      <<<<"A","b","s","t","r","a","c","t">>>> >>,
    <<<<"g","e","o","m","e","t","r","i","c">>,
      <<<<"A","b","s","t","r","a","c","t">>>> >>,
    <<<<"p","a","t","t","e","r","n">>,
      <<<<"A","b","s","t","r","a","c","t">>, <<"B","a","c","k","g","r","o","u","n","d","s","/","T","e","x","t","u","r","e","s">>>> >>,
    <<<<"a","n","i","m","a","l">>,
      <<<<"A","n","i","m","a","l","s","/","W","i","l","d","l","i","f","e">>>> >>,
    <<<<"w","i","l","d","l","i","f","e">>,
      <<<<"A","n","i","m","a","l","s","/","W","i","l","d","l","i","f","e">>>> >>,
    <<<<"p","e","t">>,
      <<<<"A","n","i","m","a","l","s","/","W","i","l","d","l","i","f","e">>>> >>,
    <<<<"d","o","g">>,
      <<<<"A","n","i","m","a","l","s","/","W","i","l","d","l","i","f","e">>>> >>,
    <<<<"c","a","t">>,
      <<<<"A","n","i","m","a","l","s","/","W","i","l","d","l","i","f","e">>>> >>,
    <<<<"b","i","r","d">>,
      <<<<"A","n","i","m","a","l","s","/","W","i","l","d","l","i","f","e">>>> >>,
    <<<<"f","i","s","h">>,
      <<<<"A","n","i","m","a","l","s","/","W","i","l","d","l","i","f","e">>>> >>,
    <<<<"a","r","t">>,
      <<<<"A","r","t","s">>>> >>,
    <<<<"p","a","i","n","t","i","n","g">>,
      <<<<"A","r","t","s">>>> >>,
    <<<<"s","c","u","l","p","t","u","r","e">>,
      <<<<"A","r","t","s">>>> >>,
    <<<<"d","r","a","w","i","n","g">>,
      <<<<"A","r","t","s">>>> >>,
    <<<<"c","r","e","a","t","i","v","e">>,
      <<<<"A","r","t","s">>>> >>,
    <<<<"b","a","c","k","g","r","o","u","n","d">>,
      <<<<"B","a","c","k","g","r","o","u","n","d","s","/","T","e","x","t","u","r","e","s">>>> >>,
    <<<<"t","e","x","t","u","r","e">>,
      <<<<"B","a","c","k","g","r","o","u","n","d","s","/","T","e","x","t","u","r","e","s">>>> >>,
    <<<<"w","a","l","l","p","a","p","e","r">>,
      <<<<"B","a","c","k","g","r","o","u","n","d","s","/","T","e","x","t","u","r","e","s">>>> >>,
    <<<<"b","e","a","u","t","y">>,
      <<<<"B","e","a","u","t","y","/","F","a","s","h","i","o","n">>>> >>,
    <<<<"f","a","s","h","i","o","n">>,
      <<<<"B","e","a","u","t","y","/","F","a","s","h","i","o","n">>>> >>,
    <<<<"m","a","k","e","u","p">>,
      <<<<"B","e","a","u","t","y","/","F","a","s","h","i","o","n">>>> >>,
    <<<<"m","o","d","e","l">>,
      <<<<"B","e","a","u","t","y","/","F","a","s","h","i","o","n">>, <<"P","e","o","p","l","e">>>> >>,
    <<<<"s","t","y","l","e">>,
      <<<<"B","e","a","u","t","y","/","F","a","s","h","i","o","n">>>> >>,
    <<<<"c","l","o","t","h","i","n","g">>,
      <<<<"B","e","a","u","t","y","/","F","a","s","h","i","o","n">>>> >>,
    <<<<"b","u","i","l","d","i","n","g">>,
      <<<<"B","u","i","l","d","i","n","g","s","/","L","a","n","d","m","a","r","k","s">>>> >>,
    <<<<"a","r","c","h","i","t","e","c","t","u","r","e">>,
      <<<<"B","u","i","l","d","i","n","g","s","/","L","a","n","d","m","a","r","k","s">>>> >>,
    <<<<"l","a","n","d","m","a","r","k">>,
      <<<<"B","u","i","l","d","i","n","g","s","/","L","a","n","d","m","a","r","k","s">>>> >>,
    <<<<"m","o","n","u","m","e","n","t">>,
      <<<<"B","u","i","l","d","i","n","g","s","/","L","a","n","d","m","a","r","k","s">>>> >>,
    <<<<"s","k","y","s","c","r","a","p","e","r">>,
      <<<<"B","u","i","l","d","i","n","g","s","/","L","a","n","d","m","a","r","k","s">>>> >>,
    <<<<"h","o","u","s","e">>,
      <<<<"B","u","i","l","d","i","n","g","s","/","L","a","n","d","m","a","r","k","s">>>> >>,
    <<<<"b","u","s","i","n","e","s","s">>,
      <<<<"B","u","s","i","n","e","s","s","/","F","i","n","a","n","c","e">>>> >>,
    <<<<"f","i","n","a","n","c","e">>,
      <<<<"B","u","s","i","n","e","s","s","/","F","i","n","a","n","c","e">>>> >>,
    <<<<"o","f","f","i","c","e">>,
      <<<<"B","u","s","i","n","e","s","s","/","F","i","n","a","n","c","e">>>> >>,
    <<<<"m","e","e","t","i","n","g">>,
      <<<<"B","u","s","i","n","e","s","s","/","F","i","n","a","n","c","e">>>> >>,
    <<<<"c","o","r","p","o","r","a","t","e">>,
      <<<<"B","u","s","i","n","e","s","s","/","F","i","n","a","n","c","e">>>> >>,
    <<<<"p","r","o","f","e","s","s","i","o","n","a","l">>,
      <<<<"B","u","s","i","n","e","s","s","/","F","i","n","a","n","c","e">>>> >>,
    <<<<"c","e","l","e","b","r","i","t","y">>,
      <<<<"C","e","l","e","b","r","i","t","i","e","s">>>> >>,
    <<<<"f","a","m","o","u","s">>,
      <<<<"C","e","l","e","b","r","i","t","i","e","s">>>> >>,
    <<<<"s","t","a","r">>,
      <<<<"C","e","l","e","b","r","i","t","i","e","s">>>> >>,
    <<<<"e","d","u","c","a","t","i","o","n">>,
      <<<<"E","d","u","c","a","t","i","o","n">>>> >>,
    <<<<"s","c","h","o","o","l">>,
      <<<<"E","d","u","c","a","t","i","o","n">>>> >>,
    <<<<"l","e","a","r","n","i","n","g">>,
      <<<<"E","d","u","c","a","t","i","o","n">>>> >>,
    <<<<"s","t","u","d","e","n","t">>,
      <<<<"E","d","u","c","a","t","i","o","n">>>> >>,
    <<<<"b","o","o","k">>,
      <<<<"E","d","u","c","a","t","i","o","n">>>> >>,
    <<<<"c","l","a","s","s","r","o","o","m">>,
      <<<<"E","d","u","c","a","t","i","o","n">>>> >>,
    <<<<"f","o","o","d">>,
      <<<<"F","o","o","d"," ","a","n","d"," ","d","r","i","n","k">>>> >>,
    <<<<"d","r","i","n","k">>,
      <<<<"F","o","o","d"," ","a","n","d"," ","d","r","i","n","k">>>> >>,
    <<<<"m","e","a","l">>,
      <<<<"F","o","o","d"," ","a","n","d"," ","d","r","i","n","k">>>> >>,
    <<<<"r","e","s","t","a","u","r","a","n","t">>,
      <<<<"F","o","o","d"," ","a","n","d"," ","d","r","i","n","k">>>> >>,
    <<<<"c","o","o","k","i","n","g">>,
      <<<<"F","o","o","d"," ","a","n","d"," ","d","r","i","n","k">>>> >>,
    <<<<"k","i","t","c","h","e","n">>,
      <<<<"F","o","o","d"," ","a","n","d"," ","d","r","i","n","k">>>> >>,
    <<<<"h","e","a","l","t","h">>,
      <<<<"H","e","a","l","t","h","c","a","r","e","/","M","e","d","i","c","a","l">>>> >>,
    <<<<"m","e","d","i","c","a","l">>,
      <<<<"H","e","a","l","t","h","c","a","r","e","/","M","e","d","i","c","a","l">>>> >>,
    <<<<"d","o","c","t","o","r">>,
      <<<<"H","e","a","l","t","h","c","a","r","e","/","M","e","d","i","c","a","l">>>> >>,
    <<<<"h","o","s","p","i","t","a","l">>,
      <<<<"H","e","a","l","t","h","c","a","r","e","/","M","e","d","i","c","a","l">>>> >>,
    <<<<"n","u","r","s","e">>,
      <<<<"H","e","a","l","t","h","c","a","r","e","/","M","e","d","i","c","a","l">>>> >>,
    <<<<"m","e","d","i","c","i","n","e">>,
      <<<<"H","e","a","l","t","h","c","a","r","e","/","M","e","d","i","c","a","l">>>> >>,
    <<<<"h","o","l","i","d","a","y">>,
      <<<<"H","o","l","i","d","a","y","s">>>> >>,
    <<<<"c","h","r","i","s","t","m","a","s">>,
      <<<<"H","o","l","i","d","a","y","s">>>> >>,
    <<<<"h","a","l","l","o","w","e","e","n">>,
      <<<<"H","o","l","i","d","a","y","s">>>> >>,
    <<<<"e","a","s","t","e","r">>,
      <<<<"H","o","l","i","d","a","y","s">>>> >>,
    <<<<"c","e","l","e","b","r","a","t","i","o","n">>,
      <<<<"H","o","l","i","d","a","y","s">>>> >>,
    <<<<"f","e","s","t","i","v","a","l">>,
      <<<<"H","o","l","i","d","a","y","s">>>> >>,
    <<<<"i","n","d","u","s","t","r","i","a","l">>,
      <<<<"I","n","d","u","s","t","r","i","a","l">>>> >>,
    <<<<"f","a","c","t","o","r","y">>,
      <<<<"I","n","d","u","s","t","r","i","a","l">>>> >>,
    <<<<"m","a","n","u","f","a","c","t","u","r","i","n","g">>,
      <<<<"I","n","d","u","s","t","r","i","a","l">>>> >>,
    <<<<"m","a","c","h","i","n","e","r","y">>,
      <<<<"I","n","d","u","s","t","r","i","a","l">>>> >>,
    <<<<"c","o","n","s","t","r","u","c","t","i","o","n">>,
      <<<<"I","n","d","u","s","t","r","i","a","l">>>> >>,
    <<<<"i","n","t","e","r","i","o","r">>,
      <<<<"I","n","t","e","r","i","o","r","s">>>> >>,
    <<<<"r","o","o","m">>,
      <<<<"I","n","t","e","r","i","o","r","s">>>> >>,
    <<<<"f","u","r","n","i","t","u","r","e">>,
      <<<<"I","n","t","e","r","i","o","r","s">>>> >>,
    <<<<"h","o","m","e">>,
      <<<<"I","n","t","e","r","i","o","r","s">>>> >>,
    <<<<"d","e","c","o","r","a","t","i","o","n">>,
      <<<<"I","n","t","e","r","i","o","r","s">>>> >>,
    <<<<"i","n","d","o","o","r">>,
      <<<<"I","n","t","e","r","i","o","r","s">>>> >>,
    <<<<"m","i","s","c">>,
      <<<<"M","i","s","c","e","l","l","a","n","e","o","u","s">>>> >>,
    <<<<"v","a","r","i","o","u","s">>,
      <<<<"M","i","s","c","e","l","l","a","n","e","o","u","s">>>> >>,
    <<<<"a","s","s","o","r","t","e","d">>,
      <<<<"M","i","s","c","e","l","l","a","n","e","o","u","s">>>> >>,
    <<<<"n","a","t","u","r","e">>,
      <<<<"N","a","t","u","r","e">>>> >>,
    <<<<"l","a","n","d","s","c","a","p","e">>,
      <<<<"N","a","t","u","r","e">>, <<"P","a","r","k","s","/","O","u","t","d","o","o","r">>>> >>,
    <<<<"m","o","u","n","t","a","i","n">>,
      <<<<"N","a","t","u","r","e">>, <<"P","a","r","k","s","/","O","u","t","d","o","o","r">>>> >>,
    <<<<"f","o","r","e","s","t">>,
      <<<<"N","a","t","u","r","e">>>> >>,
    <<<<"p","l","a","n","t">>,
      <<<<"N","a","t","u","r","e">>>> >>,
    <<<<"f","l","o","w","e","r">>,
      <<<<"N","a","t","u","r","e">>>> >>,
    <<<<"t","r","e","e">>,
      <<<<"N","a","t","u","r","e">>>> >>,
    <<<<"r","i","v","e","r">>,
      <<<<"N","a","t","u","r","e">>>> >>,
    <<<<"l","a","k","e">>,
      <<<<"N","a","t","u","r","e">>>> >>,
    <<<<"o","c","e","a","n">>,
      <<<<"N","a","t","u","r","e">>>> >>,
    <<<<"s","e","a">>,
      <<<<"N","a","t","u","r","e">>>> >>,
    <<<<"o","b","j","e","c","t">>,
      <<<<"O","b","j","e","c","t","s">>>> >>,
    <<<<"i","t","e","m">>,
      <<<<"O","b","j","e","c","t","s">>>> >>,
    <<<<"t","o","o","l">>,
      <<<<"O","b","j","e","c","t","s">>>> >>,
    <<<<"p","r","o","d","u","c","t">>,
      <<<<"O","b","j","e","c","t","s">>>> >>,
    <<<<"p","a","r","k">>,
      <<<<"P","a","r","k","s","/","O","u","t","d","o","o","r">>>> >>,
    <<<<"o","u","t","d","o","o","r">>,
      <<<<"P","a","r","k","s","/","O","u","t","d","o","o","r">>>> >>,
    <<<<"g","a","r","d","e","n">>,
      <<<<"P","a","r","k","s","/","O","u","t","d","o","o","r">>>> >>,
    <<<<"y","a","r","d">>,
      <<<<"P","a","r","k","s","/","O","u","t","d","o","o","r">>>> >>,
    <<<<"c","a","m","p","i","n","g">>,
      <<<<"P","a","r","k","s","/","O","u","t","d","o","o","r">>>> >>,
    <<<<"p","e","o","p","l","e">>,
      <<<<"P","e","o","p","l","e">>>> >>,
    <<<<"p","e","r","s","o","n">>,
      <<<<"P","e","o","p","l","e">>>> >>,
    <<<<"m","a","n">>,
      <<<<"P","e","o","p","l","e">>>> >>,
    <<<<"w","o","m","a","n">>,
      <<<<"P","e","o","p","l","e">>>> >>,
    <<<<"c","h","i","l","d">>,
      <<<<"P","e","o","p","l","e">>>> >>,
    <<<<"f","a","m","i","l","y">>,
      <<<<"P","e","o","p","l","e">>>> >>,
    <<<<"g","r","o","u","p">>,
      <<<<"P","e","o","p","l","e">>>> >>,
    <<<<"r","e","l","i","g","i","o","n">>,
      <<<<"R","e","l","i","g","i","o","n">>>> >>,
    <<<<"c","h","u","r","c","h">>,
      <<<<"R","e","l","i","g","i","o","n">>>> >>,
    <<<<"t","e","m","p","l","e">>,
      <<<<"R","e","l","i","g","i","o","n">>>> >>,
    <<<<"m","o","s","q","u","e">>,
      <<<<"R","e","l","i","g","i","o","n">>>> >>,
    <<<<"p","r","a","y","e","r">>,
      <<<<"R","e","l","i","g","i","o","n">>>> >>,
    <<<<"s","p","i","r","i","t","u","a","l">>,
      <<<<"R","e","l","i","g","i","o","n">>>> >>,
    <<<<"s","c","i","e","n","c","e">>,
      <<<<"S","c","i","e","n","c","e">>>> >>,
    <<<<"r","e","s","e","a","r","c","h">>,
      <<<<"S","c","i","e","n","c","e">>>> >>,
    <<<<"l","a","b">>,
      <<<<"S","c","i","e","n","c","e">>>> >>,
    <<<<"c","h","e","m","i","s","t","r","y">>,
      <<<<"S","c","i","e","n","c","e">>>> >>,
    <<<<"b","i","o","l","o","g","y">>,
      <<<<"S","c","i","e","n","c","e">>>> >>,
    <<<<"p","h","y","s","i","c","s">>,
      <<<<"S","c","i","e","n","c","e">>>> >>,
    <<<<"s","i","g","n">>,
      <<<<"S","i","g","n","s","/","S","y","m","b","o","l","s">>>> >>,
    <<<<"s","y","m","b","o","l">>,
      <<<<"S","i","g","n","s","/","S","y","m","b","o","l","s">>>> >>,
    <<<<"i","c","o","n">>,
      <<<<"S","i","g","n","s","/","S","y","m","b","o","l","s">>>> >>,
    <<<<"l","o","g","o">>,
      <<<<"S","i","g","n","s","/","S","y","m","b","o","l","s">>>> >>,
    <<<<"s","p","o","r","t">>,
      <<<<"S","p","o","r","t","s","/","R","e","c","r","e","a","t","i","o","n">>>> >>,
    <<<<"g","a","m","e">>,
      <<<<"S","p","o","r","t","s","/","R","e","c","r","e","a","t","i","o","n">>>> >>,
    <<<<"p","l","a","y">>,
      <<<<"S","p","o","r","t","s","/","R","e","c","r","e","a","t","i","o","n">>>> >>,
    <<<<"a","t","h","l","e","t","e">>,
      <<<<"S","p","o","r","t","s","/","R","e","c","r","e","a","t","i","o","n">>>> >>,
    <<<<"f","i","t","n","e","s","s">>,
      <<<<"S","p","o","r","t","s","/","R","e","c","r","e","a","t","i","o","n">>>> >>,
    <<<<"e","x","e","r","c","i","s","e">>,
      <<<<"S","p","o","r","t","s","/","R","e","c","r","e","a","t","i","o","n">>>> >>,
    <<<<"r","e","c","r","e","a","t","i","o","n">>,
      <<<<"S","p","o","r","t","s","/","R","e","c","r","e","a","t","i","o","n">>>> >>,
    <<<<"t","e","c","h","n","o","l","o","g","y">>,
      <<<<"T","e","c","h","n","o","l","o","g","y">>>> >>,
    <<<<"c","o","m","p","u","t","e","r">>,
      <<<<"T","e","c","h","n","o","l","o","g","y">>>> >>,
    <<<<"d","i","g","i","t","a","l">>,
      <<<<"T","e","c","h","n","o","l","o","g","y">>>> >>,
    <<<<"e","l","e","c","t","r","o","n","i","c">>,
      <<<<"T","e","c","h","n","o","l","o","g","y">>>> >>,
    <<<<"d","e","v","i","c","e">>,
      <<<<"T","e","c","h","n","o","l","o","g","y">>>> >>,
    <<<<"s","m","a","r","t","p","h","o","n","e">>,
      <<<<"T","e","c","h","n","o","l","o","g","y">>>> >>,
    <<<<"i","n","t","e","r","n","e","t">>,
      <<<<"T","e","c","h","n","o","l","o","g","y">>>> >>,
    <<<<"t","r","a","n","s","p","o","r","t","a","t","i","o","n">>,
      <<<<"T","r","a","n","s","p","o","r","t","a","t","i","o","n">>>> >>,
    <<<<"v","e","h","i","c","l","e">>,
      <<<<"T","r","a","n","s","p","o","r","t","a","t","i","o","n">>>> >>,
    <<<<"c","a","r">>,
      <<<<"T","r","a","n","s","p","o","r","t","a","t","i","o","n">>>> >>,
    <<<<"b","u","s">>,
      <<<<"T","r","a","n","s","p","o","r","t","a","t","i","o","n">>>> >>,
    <<<<"t","r","a","i","n">>,
      <<<<"T","r","a","n","s","p","o","r","t","a","t","i","o","n">>>> >>,
    <<<<"p","l","a","n","e">>,
      <<<<"T","r","a","n","s","p","o","r","t","a","t","i","o","n">>>> >>,
    <<<<"a","i","r","p","l","a","n","e">>,
      <<<<"T","r","a","n","s","p","o","r","t","a","t","i","o","n">>>> >>,
    <<<<"s","h","i","p">>,
      <<<<"T","r","a","n","s","p","o","r","t","a","t","i","o","n">>>> >>,
    <<<<"b","o","a","t">>,
      <<<<"T","r","a","n","s","p","o","r","t","a","t","i","o","n">>>> >>,
    <<<<"v","i","n","t","a","g","e">>,
      <<<<"V","i","n","t","a","g","e">>>> >>,
    <<<<"r","e","t","r","o">>,
      <<<<"V","i","n","t","a","g","e">>>> >>,
    <<<<"a","n","t","i","q","u","e">>,
      <<<<"V","i","n","t","a","g","e">>>> >>,
    <<<<"o","l","d">>,
      <<<<"V","i","n","t","a","g","e">>>> >>,
    <<<<"c","l","a","s","s","i","c">>,
      <<<<"V","i","n","t","a","g","e">>>> >>
  >>

\* The table as a lookup: categoryMatches[word]
TableOf(entries) ==
  [w \in {entries[i][1] : i \in 1..Len(entries)} |->
     (CHOOSE e \in {entries[i] : i \in 1..Len(entries)} : e[1] = w)[2]]

adobeStockCategoryMatches == TableOf(adobeStockCategoryEntries)

shutterstockCategoryMatches == TableOf(shutterstockCategoryEntries)

\* The all-lowercase property names every object literal inherits from
\* Object.prototype: categoryMatches[word] is truthy for them and not
\* iterable, so the for...of over it throws a TypeError.
InheritedWords ==
  { <<"c","o","n","s","t","r","u","c","t","o","r">>,
    <<"_","_","p","r","o","t","o","_","_">> }

\* combinedText.split(/\s+/): acc is the word being read, sep tells that the
\* last character read was a separator
RECURSIVE SplitWs(_, _, _)
SplitWs(s, acc, sep) ==
  IF s = <<>> THEN <<acc>>
  ELSE IF Head(s) \in SpaceChar
       THEN IF sep THEN SplitWs(Tail(s), acc, TRUE)
            ELSE <<acc>> \o SplitWs(Tail(s), <<>>, TRUE)
       ELSE SplitWs(Tail(s), Append(acc, Head(s)), FALSE)

SplitWhitespace(s) == SplitWs(s, <<>>, FALSE)

\* categoryCount[category] = (categoryCount[category] || 0) + 1, the object
\* kept as its entries in insertion order
Bump(count, category) ==
  IF \E i \in 1..Len(count) : count[i][1] = category
  THEN [i \in 1..Len(count) |->
          IF count[i][1] = category THEN <<category, count[i][2] + 1>> ELSE count[i]]
  ELSE Append(count, <<category, 1>>)

RECURSIVE BumpAll(_, _)
BumpAll(count, categories) ==
  IF categories = <<>> THEN count
  ELSE BumpAll(Bump(count, Head(categories)), Tail(categories))

RECURSIVE CountCategories(_, _, _)
CountCategories(words, matches, count) ==
  IF words = <<>> THEN count
  ELSE IF Head(words) \in DOMAIN matches
       THEN CountCategories(Tail(words), matches, BumpAll(count, matches[Head(words)]))
       ELSE CountCategories(Tail(words), matches, count)

\* insertion before the equals, which turns ties round: the mutation of
\* InsertByCount
RECURSIVE InsertByCount_beforeEquals(_, _)
InsertByCount_beforeEquals(sorted, e) ==
  IF sorted = <<>> THEN <<e>>
  ELSE IF Head(sorted)[2] > e[2]
       THEN <<Head(sorted)>> \o InsertByCount_beforeEquals(Tail(sorted), e)
  ELSE <<e>> \o sorted

\* Insertion of e into a list sorted by descending count, after its equals:
\* Array.prototype.sort((a, b) => b[1] - a[1]) is stable
RECURSIVE InsertByCount(_, _)
InsertByCount(sorted, e) ==
  IF sorted = <<>> THEN <<e>>
  ELSE IF Head(sorted)[2] >= e[2] THEN <<Head(sorted)>> \o InsertByCount(Tail(sorted), e)
  ELSE <<e>> \o sorted

RECURSIVE SortByCount(_, _)
SortByCount(entries, sorted) ==
  IF entries = <<>> THEN sorted
  ELSE SortByCount(Tail(entries), InsertByCount(sorted, Head(entries)))

\* Object.entries(categoryCount).sort(...).map(entry => entry[0])
SortedCategories(count) ==
  LET sorted == SortByCount(count, <<>>) IN [i \in 1..Len(sorted) |-> sorted[i][1]]

\* Array.prototype.slice(0, n)
Slice0(s, n) == SubSeq(s, 1, IF Len(s) < n THEN Len(s) ELSE n)

\* Whether the category loop throws on this text
CategoryLoopThrows(combinedText) ==
  LET words == SplitWhitespace(combinedText)
  IN \E i \in 1..Len(words) : words[i] \in InheritedWords

AdobeStockCombinedText_titleOnly(title, keywords) == ToLowerCase(title)

\* (title + " " + keywords.join(" ")).toLowerCase()
AdobeStockCombinedText(title, keywords) ==
  ToLowerCase(title \o <<" ">> \o Join(keywords, <<" ">>))

AdobeStockCategoryCount(title, keywords) ==
  CountCategories(SplitWhitespace(AdobeStockCombinedText(title, keywords)),
                  adobeStockCategoryMatches, <<>>)

suggestCategoriesForAdobeStock(title, keywords) ==
  LET sortedCategories == SortedCategories(AdobeStockCategoryCount(title, keywords))
  IN IF Len(sortedCategories) >= 1
     THEN Slice0(sortedCategories, 1)
     ELSE << <<"A","n","i","m","a","l","s">> >>

ShutterstockCombinedText(title, description) ==
  ToLowerCase(title \o <<" ">> \o description)

ShutterstockCategoryCount(title, description) ==
  CountCategories(SplitWhitespace(ShutterstockCombinedText(title, description)),
                  shutterstockCategoryMatches, <<>>)

suggestCategoriesForShutterstock(title, description) ==
  LET sortedCategories == SortedCategories(ShutterstockCategoryCount(title, description))
  IN IF Len(sortedCategories) >= 2
     THEN Slice0(sortedCategories, 2)
     ELSE Slice0(sortedCategories \o
                 << <<"M","i","s","c","e","l","l","a","n","e","o","u","s">>,
                    <<"O","b","j","e","c","t","s">> >>, 2)

\* ------------------------------------------------------ Freepik keywords

freepikCategoryWords ==
  <<
    <<"t","a","b","l","e">>, <<"c","h","a","i","r">>, <<"d","e","s","k">>,
    <<"l","a","m","p">>, <<"c","o","m","p","u","t","e","r">>, <<"p","h","o","n","e">>,
    <<"b","o","o","k">>, <<"p","e","n">>, <<"p","e","n","c","i","l">>,
    <<"n","o","t","e","b","o","o","k">>, <<"c","u","p">>, <<"m","u","g">>,
    <<"b","o","t","t","l","e">>, <<"g","l","a","s","s">>, <<"p","l","a","t","e">>,
    <<"b","o","w","l">>, <<"f","o","r","k">>, <<"k","n","i","f","e">>,
    <<"s","p","o","o","n">>, <<"w","a","t","c","h">>, <<"c","l","o","c","k">>,
    <<"b","a","g">>, <<"b","o","x">>, <<"c","o","n","t","a","i","n","e","r">>,
    <<"b","i","n">>, <<"t","r","a","s","h">>, <<"r","e","c","y","c","l","e">>,
    <<"t","r","e","e">>, <<"p","l","a","n","t">>, <<"f","l","o","w","e","r">>,
    <<"g","r","a","s","s">>, <<"l","e","a","f">>, <<"m","o","u","n","t","a","i","n">>,
    <<"r","i","v","e","r">>, <<"l","a","k","e">>, <<"o","c","e","a","n">>,
    <<"s","e","a">>, <<"b","e","a","c","h">>, <<"f","o","r","e","s","t">>,
    <<"g","a","r","d","e","n">>, <<"p","a","r","k">>, <<"s","k","y">>,
    <<"c","l","o","u","d">>, <<"r","a","i","n">>, <<"s","n","o","w">>,
    <<"s","u","n">>, <<"m","o","o","n">>, <<"s","t","a","r">>,
    <<"d","o","g">>, <<"c","a","t">>, <<"b","i","r","d">>,
    <<"f","i","s","h">>, <<"h","o","r","s","e">>, <<"c","o","w">>,
    <<"s","h","e","e","p">>, <<"g","o","a","t">>, <<"c","h","i","c","k","e","n">>,
    <<"p","i","g">>, <<"d","u","c","k">>, <<"r","a","b","b","i","t">>,
    <<"m","o","u","s","e">>, <<"r","a","t">>, <<"h","a","m","s","t","e","r">>,
    <<"g","u","i","n","e","a">>, <<"t","u","r","t","l","e">>, <<"s","n","a","k","e">>,
    <<"l","i","z","a","r","d">>, <<"f","r","o","g">>, <<"r","e","d">>,
    <<"b","l","u","e">>, <<"g","r","e","e","n">>, <<"y","e","l","l","o","w">>,
    <<"o","r","a","n","g","e">>, <<"p","u","r","p","l","e">>, <<"p","i","n","k">>,
    <<"b","r","o","w","n">>, <<"b","l","a","c","k">>, <<"w","h","i","t","e">>,
    <<"g","r","a","y">>, <<"g","o","l","d">>, <<"s","i","l","v","e","r">>,
    <<"b","r","o","n","z","e">>, <<"c","o","p","p","e","r">>, <<"t","u","r","q","u","o","i","s","e">>,
    <<"t","e","a","l">>, <<"n","a","v","y">>, <<"m","a","r","o","o","n">>,
    <<"o","l","i","v","e">>, <<"w","o","o","d">>, <<"m","e","t","a","l">>,
    <<"p","l","a","s","t","i","c">>, <<"g","l","a","s","s">>, <<"c","e","r","a","m","i","c">>,
    <<"c","o","t","t","o","n">>, <<"w","o","o","l">>, <<"s","i","l","k">>,
    <<"l","e","a","t","h","e","r">>, <<"p","a","p","e","r">>, <<"c","a","r","d","b","o","a","r","d">>,
    <<"s","t","o","n","e">>, <<"m","a","r","b","l","e">>, <<"g","r","a","n","i","t","e">>,
    <<"c","o","n","c","r","e","t","e">>, <<"b","r","i","c","k">>, <<"r","u","b","b","e","r">>,
    <<"h","a","p","p","y">>, <<"s","a","d">>, <<"a","n","g","r","y">>,
    <<"c","a","l","m">>, <<"q","u","i","e","t">>, <<"l","o","u","d">>,
    <<"f","a","s","t">>, <<"s","l","o","w">>, <<"b","i","g">>,
    <<"s","m","a","l","l">>, <<"t","a","l","l">>, <<"s","h","o","r","t">>,
    <<"l","o","n","g">>, <<"w","i","d","e">>, <<"n","a","r","r","o","w">>,
    <<"t","h","i","c","k">>, <<"t","h","i","n">>, <<"h","e","a","v","y">>,
    <<"l","i","g","h","t">>, <<"o","l","d">>, <<"n","e","w">>,
    <<"y","o","u","n","g">>, <<"a","n","c","i","e","n","t">>, <<"m","o","d","e","r","n">>,
    <<"f","u","t","u","r","i","s","t","i","c">>, <<"v","i","n","t","a","g","e">>, <<"r","e","t","r","o">>,
    <<"c","l","a","s","s","i","c">>, <<"t","r","a","d","i","t","i","o","n","a","l">>, <<"c","o","n","t","e","m","p","o","r","a","r","y">>
  >>

styleAdjectives ==
  <<
    <<"e","l","e","g","a","n","t">>, <<"b","e","a","u","t","i","f","u","l">>, <<"s","t","y","l","i","s","h">>,
    <<"m","o","d","e","r","n">>, <<"r","u","s","t","i","c">>, <<"m","i","n","i","m","a","l","i","s","t">>,
    <<"l","u","x","u","r","i","o","u","s">>, <<"c","o","l","o","r","f","u","l">>, <<"v","i","n","t","a","g","e">>,
    <<"a","r","t","i","s","t","i","c">>
  >>

\* String.prototype.includes
Includes(s, sub) ==
  \E i \in 0..(Len(s) - Len(sub)) : SubSeq(s, i + 1, i + Len(sub)) = sub

\* Array.prototype.includes
Has(list, x) == \E i \in 1..Len(list) : list[i] = x

\* Array.from(new Set(list)): the first occurrence of each element, in order
RECURSIVE Unique(_, _)
Unique(list, seen) ==
  IF list = <<>> THEN seen
  ELSE IF Has(seen, Head(list)) THEN Unique(Tail(list), seen)
  ELSE Unique(Tail(list), Append(seen, Head(list)))

RECURSIVE MeaningfulWords(_)
MeaningfulWords(words) ==
  IF words = <<>> THEN <<>>
  ELSE LET w == Filter(Head(words), WordChar)
       IN IF Len(Head(words)) > 3 /\ Len(w) > 0
          THEN <<w>> \o MeaningfulWords(Tail(words))
          ELSE MeaningfulWords(Tail(words))

\* words.forEach(word => { if (description.includes(word) &&
\* !keywords.includes(word)) keywords.push(word) })
PushIncluded(keywords, description, words) ==
  LET Wanted(w) == Includes(description, w) /\ ~Has(keywords, w)
  IN keywords \o Unique(SelectSeq(words, Wanted), <<>>)

W_indoor == <<"i","n","d","o","o","r">>
W_room == <<"r","o","o","m">>
W_interior == <<"i","n","t","e","r","i","o","r">>
W_home == <<"h","o","m","e">>
W_decor == <<"d","e","c","o","r">>
W_outdoor == <<"o","u","t","d","o","o","r">>
W_outside == <<"o","u","t","s","i","d","e">>
W_garden == <<"g","a","r","d","e","n">>
W_exterior == <<"e","x","t","e","r","i","o","r">>
W_nature == <<"n","a","t","u","r","e">>
W_person == <<"p","e","r","s","o","n">>
W_people == <<"p","e","o","p","l","e">>
W_man == <<"m","a","n">>
W_woman == <<"w","o","m","a","n">>
W_lifestyle == <<"l","i","f","e","s","t","y","l","e">>
W_portrait == <<"p","o","r","t","r","a","i","t">>

FewKeywordsLimit == 15

MaxFreepikKeywords == 30

getRelevantFreepikKeywords(imageDescription) ==
  LET description == ToLowerCase(imageDescription)
      uniqueWords == Unique(MeaningfulWords(SplitWhitespace(description)), <<>>)
      k1 == PushIncluded(uniqueWords, description, freepikCategoryWords)
      k2 == PushIncluded(k1, description, styleAdjectives)
      few == Len(k2) < FewKeywordsLimit
      k3 == IF few /\ (Includes(description, W_indoor) \/ Includes(description, W_room)
                       \/ Includes(description, W_interior))
            THEN k2 \o <<W_interior, W_indoor, W_home, W_decor>> ELSE k2
      k4 == IF few /\ (Includes(description, W_outdoor) \/ Includes(description, W_outside)
                       \/ Includes(description, W_garden))
            THEN k3 \o <<W_outdoor, W_exterior, W_garden, W_nature>> ELSE k3
      k5 == IF few /\ (Includes(description, W_person) \/ Includes(description, W_people)
                       \/ Includes(description, W_man) \/ Includes(description, W_woman))
            THEN k4 \o <<W_person, W_people, W_lifestyle, W_portrait>> ELSE k4
  IN Slice0(Unique(k5, <<>>), MaxFreepikKeywords)

\* -------------------------------------------------------------- AI client

Platforms == {"Freepik", "AdobeStock", "Shutterstock", "Vecteezy", "Canva",
              "123RF", "Dreamstime"}

GenerationModes == {"metadata", "imageToPrompt"}

\* Index: useState(35), the minimum number of keywords asked for
minKeywords == 35

Leonardo == <<"l","e","o","n","a","r","d","o">>

\* The truth value of an optional string: undefined and '' are falsy
Truthy(optString) == optString # None /\ optString[1] # ""

\* A result in the shape of the normal return, the error added
ErrorResult_withDefaults(message) ==
  [title |-> <<>>, description |-> <<>>, keywords |-> <<>>, prompt |-> None,
   baseModel |-> Some(Leonardo), categories |-> None, error |-> Some(message)]

\* The catch block of analyzeImageWithGemini: a result carrying the error
ErrorResult(message) ==
  [title |-> <<>>, description |-> <<>>, keywords |-> <<>>, prompt |-> None,
   baseModel |-> None, categories |-> None, error |-> Some(message)]

\* What the external model does with one request: a non-OK HTTP response
\* with an optional error message, a failure thrown on the way (fetch, file
\* reading, a reply without candidates), or a reply with its text and the
\* object JSON.parse makes of the text (None when it throws).
HttpError(message) ==
  [kind |-> "httpError", message |-> message, text |-> <<>>, json |-> None]

Thrown(message) ==
  [kind |-> "thrown", message |-> Some(message), text |-> <<>>, json |-> None]

\* A failure that throws a value that is no Error (the event of a FileReader)
ThrownValue ==
  [kind |-> "thrown", message |-> None, text |-> <<>>, json |-> None]

Reply(text, json) ==
  [kind |-> "reply", message |-> None, text |-> text, json |-> json]

Json(title, description, keywords, prompt) ==
  [title |-> title, description |-> description, keywords |-> keywords,
   prompt |-> prompt]

\* The body of the try block after JSON.parse succeeded with object json
AnalysisOfJson(json, isFreepikOnly, isShutterstock, isAdobeStock) ==
  LET title == IF json.title # None /\ json.title[1] # <<>>
               THEN Some(removeSymbolsFromTitle(json.title[1])) ELSE json.title
      keywords == IF isFreepikOnly
                     /\ (json.keywords = None \/ Len(json.keywords[1]) < minKeywords)
                  THEN Some(getRelevantFreepikKeywords(OrElse(json.prompt, <<>>)))
                  ELSE json.keywords
      baseModel == IF isFreepikOnly THEN Some(Leonardo) ELSE None
      shutterText == ShutterstockCombinedText(OrElse(title, <<>>),
                                              OrElse(json.description, <<>>))
      adobeText == AdobeStockCombinedText(OrElse(title, <<>>), OrElse(keywords, <<>>))
      categories ==
        IF isShutterstock
        THEN Some(suggestCategoriesForShutterstock(OrElse(title, <<>>),
                                                   OrElse(json.description, <<>>)))
        ELSE IF isAdobeStock
        THEN Some(suggestCategoriesForAdobeStock(OrElse(title, <<>>),
                                                 OrElse(keywords, <<>>)))
        ELSE None
  IN IF \/ isShutterstock /\ CategoryLoopThrows(shutterText)
        \/ isAdobeStock /\ CategoryLoopThrows(adobeText)
     THEN ErrorResult("categoryMatches[word] is not iterable")
     ELSE [title |-> OrElse(title, <<>>),
           description |-> OrElse(json.description, <<>>),
           keywords |-> OrElse(keywords, <<>>),
           prompt |-> json.prompt,
           baseModel |-> Some(OrElse(baseModel, Leonardo)),
           categories |-> categories,
           error |-> None]

analyzeImageWithGemini(imageFile, key, options, response) ==
  LET isFreepikOnly == Len(options.platforms) = 1 /\ options.platforms[1] = "Freepik"
      isShutterstock == Len(options.platforms) = 1 /\ options.platforms[1] = "Shutterstock"
      isAdobeStock == Len(options.platforms) = 1 /\ options.platforms[1] = "AdobeStock"
  IN IF response.kind = "httpError"
     THEN ErrorResult(IF Truthy(response.message) THEN response.message[1]
                      ELSE "Failed to analyze image")
     ELSE IF response.kind = "thrown"
     THEN ErrorResult(IF response.message # None THEN response.message[1]
                      ELSE "Unknown error occurred")
     ELSE IF options.generationMode = "imageToPrompt"
     THEN [title |-> <<>>, description |-> Trim(response.text), keywords |-> <<>>,
           prompt |-> None, baseModel |-> None, categories |-> None, error |-> None]
     ELSE IF response.json = None
     THEN ErrorResult("Failed to parse metadata from the API response")
     ELSE AnalysisOfJson(response.json[1], isFreepikOnly, isShutterstock, isAdobeStock)

\* ----------------------------------------------------------- image list

\* A ProcessedImage (the preview URL, which nothing reads back, is left out)
NewImage(id, file) ==
  [id |-> id, file |-> file, status |-> "pending", result |-> None, error |-> None]

\* processFiles: the entries made of the files that pass both validations and
\* whose preview could be read, in order; generateId is modelled as handing
\* out the ids first + 1, first + 2, ...
RECURSIVE ValidResults(_, _, _)
ValidResults(files, previewOk, first) ==
  IF files = <<>> THEN <<>>
  ELSE IF ~isValidMediaType(Head(files)) THEN ValidResults(Tail(files), Tail(previewOk), first)
  ELSE IF ~isValidFileSize(Head(files), MaxSizeGB)
       THEN ValidResults(Tail(files), Tail(previewOk), first)
  ELSE IF ~Head(previewOk) THEN ValidResults(Tail(files), Tail(previewOk), first)
  ELSE <<NewImage(first + 1, Head(files))>>
       \o ValidResults(Tail(files), Tail(previewOk), first + 1)

\* The files processFiles shows a validation notice for
RejectedFiles(files) ==
  {files[i] : i \in {j \in 1..Len(files) :
      ~isValidMediaType(files[j]) \/ ~isValidFileSize(files[j], MaxSizeGB)}}

\* processFiles followed by handleImagesSelected
ProcessFilesList(files, previewOk) ==
  LET validResults == ValidResults(files, previewOk, nextId)
  IN /\ nextId + Len(validResults) <= MaxUploads
     /\ images' = IF Len(validResults) > 0 THEN images \o validResults ELSE images
     /\ nextId' = nextId + Len(validResults)
     /\ UNCHANGED <<isProcessing, apiKey, platforms, generationMode, profile, runs>>

\* A drop or a selection of files, the notices left out
ProcessFiles(files, previewOk) ==
  /\ ProcessFilesList(files, previewOk)
  /\ UNCHANGED sideVars

\* A drop or a selection of files, with the notices shown
ProcessFilesNoticed(files, previewOk) ==
  /\ ProcessFilesList(files, previewOk)
  /\ rejectedNotices' = rejectedNotices \cup RejectedFiles(files)
  /\ UNCHANGED csvVars
  /\ UNCHANGED pureVars

\* prev.filter(img => img.id !== id)
RECURSIVE WithoutId(_, _)
WithoutId(list, id) ==
  IF list = <<>> THEN <<>>
  ELSE IF Head(list).id # id THEN <<Head(list)>> \o WithoutId(Tail(list), id)
  ELSE WithoutId(Tail(list), id)

handleRemoveImage(id) ==
  /\ \E i \in 1..Len(images) : images[i].id = id
  /\ images' = WithoutId(images, id)
  /\ UNCHANGED <<nextId, isProcessing, apiKey, platforms, generationMode, profile, runs>>
  /\ UNCHANGED sideVars

\* The Clear All button is shown with the results, that is, for a list that
\* is not empty
handleClearAll ==
  /\ Len(images) > 0
  /\ images' = <<>>
  /\ UNCHANGED <<nextId, isProcessing, apiKey, platforms, generationMode, profile, runs>>
  /\ UNCHANGED sideVars

\* A selector that adds the platform to the selection, or takes it out
togglePlatform_multiSelect(platform) ==
  /\ platforms' = IF \E i \in 1..Len(platforms) : platforms[i] = platform
                  THEN SelectSeq(platforms, LAMBDA q : q # platform)
                  ELSE Append(platforms, platform)
  /\ UNCHANGED <<images, nextId, isProcessing, apiKey, generationMode, profile, runs>>
  /\ UNCHANGED sideVars

\* PlatformSelector: togglePlatform, then handlePlatformChange
togglePlatform(platform) ==
  /\ platforms' = <<platform>>
  /\ platforms' # platforms
  /\ UNCHANGED <<images, nextId, isProcessing, apiKey, generationMode, profile, runs>>
  /\ UNCHANGED sideVars

handleModeChange(mode) ==
  /\ generationMode' = mode
  /\ generationMode' # generationMode
  /\ UNCHANGED <<images, nextId, isProcessing, apiKey, platforms, profile, runs>>
  /\ UNCHANGED sideVars

ApiKeys == {"", "AIza-key"}

\* handleSaveKey (a key that is not empty) and handleClearKey (the empty key)
handleApiKeyChange(key) ==
  /\ apiKey' = key
  /\ apiKey' # apiKey
  /\ UNCHANGED <<images, nextId, isProcessing, platforms, generationMode, profile, runs>>
  /\ UNCHANGED sideVars

\* ------------------------------------------------------------- credits

\* Index.tsx: "your free limit of 10 metadata generations"
FreeLimit == 10

\* AuthContext (its source is not part of the repository files): whether the
\* user may generate, a guard on the credits used
canGenerateMetadata ==
  profile.is_premium \/ profile.credits_used < profile.credits_limit

\* AuthContext: what incrementCreditsUsed() resolves to when the backend
\* call succeeds (backendOk) or fails, and the profile it leaves
incrementCreditsUsedResult(backendOk) ==
  profile.is_premium \/ (backendOk /\ profile.credits_used < profile.credits_limit)

incrementCreditsUsedProfile(backendOk) ==
  IF ~profile.is_premium /\ backendOk /\ profile.credits_used < profile.credits_limit
  THEN [profile EXCEPT !.credits_used = @ + 1]
  ELSE profile

\* --------------------------------------------------------- orchestrator

Runs == 1..MaxRuns

IdleRun ==
  [pc |-> "idle", pendingImages |-> <<>>, idx |-> 0, apiKey |-> "",
   platforms |-> <<>>, generationMode |-> "metadata", canProceed |-> None,
   log |-> <<>>]

\* An entry of a run's log: the call of analyzeImageWithGemini for an image,
\* its return, or the 2-second pause (id 0)
Event(ev, id) == [ev |-> ev, id |-> id]

\* images.filter(img => img.status === 'pending')
RECURSIVE PendingOf(_)
PendingOf(list) ==
  IF list = <<>> THEN <<>>
  ELSE IF Head(list).status = "pending" THEN <<Head(list)>> \o PendingOf(Tail(list))
  ELSE PendingOf(Tail(list))

pendingCount == Len(PendingOf(images))

\* The Process button: rendered when pendingCount > 0 && canGenerateMetadata,
\* disabled when isProcessing || !apiKey
ProcessButtonEnabled ==
  pendingCount > 0 /\ canGenerateMetadata /\ ~(isProcessing \/ apiKey = "")

\* the handler without its guard on the API key: the mutation of
\* HandleProcessImagesStart
HandleProcessImagesStart_noKeyGuard(r) ==
  LET pendingImages == PendingOf(images)
  IN IF Len(pendingImages) = 0 THEN UNCHANGED appVars
     ELSE IF ~canGenerateMetadata THEN UNCHANGED appVars
     ELSE /\ runs' = [runs EXCEPT ![r] =
                        [pc |-> "awaitCredits", pendingImages |-> pendingImages,
                         idx |-> 0, apiKey |-> apiKey, platforms |-> platforms,
                         generationMode |-> generationMode, canProceed |-> None,
                         log |-> <<>>]]
          /\ UNCHANGED <<images, nextId, isProcessing, apiKey, platforms,
                         generationMode, profile>>

\* handleProcessImages up to its first await: the guards, the snapshot of the
\* pending images and the call of incrementCreditsUsed()
HandleProcessImagesStart(r) ==
  LET pendingImages == PendingOf(images)
  IN IF apiKey = "" THEN UNCHANGED appVars
     ELSE IF Len(pendingImages) = 0 THEN UNCHANGED appVars
     ELSE IF ~canGenerateMetadata THEN UNCHANGED appVars
     ELSE /\ runs' = [runs EXCEPT ![r] =
                        [pc |-> "awaitCredits", pendingImages |-> pendingImages,
                         idx |-> 0, apiKey |-> apiKey, platforms |-> platforms,
                         generationMode |-> generationMode, canProceed |-> None,
                         log |-> <<>>]]
          /\ UNCHANGED <<images, nextId, isProcessing, apiKey, platforms,
                         generationMode, profile>>

\* The toast of the guard at which handleProcessImages returns, None when it
\* passes its guards
HandleProcessImagesNotice ==
  IF apiKey = "" THEN Some("Please enter your Gemini API key first")
  ELSE IF Len(PendingOf(images)) = 0 THEN Some("No images to process")
  ELSE IF ~canGenerateMetadata
  THEN Some("You have reached your free limit. Please upgrade to premium.")
  ELSE None

\* handleProcessImages invoked as a function, whatever the button shows
InvokeProcess(r) ==
  /\ runs[r].pc = "idle"
  /\ \A q \in Runs : q < r => runs[q].pc # "idle"
  /\ HandleProcessImagesStart(r)
  /\ rejectedNotices' =
       rejectedNotices \cup {HandleProcessImagesNotice[i] : i \in 1..Len(HandleProcessImagesNotice)}
  /\ UNCHANGED <<csvVars, pureVars>>

\* A click on the Process button
ClickProcess(r) ==
  /\ runs[r].pc = "idle"
  /\ \A q \in Runs : q < r => runs[q].pc # "idle"
  /\ ProcessButtonEnabled
  /\ HandleProcessImagesStart(r)
  /\ runs'[r].pc # "idle"
  /\ UNCHANGED sideVars

\* setImages(prev => prev.map(img => img.status === 'pending' ? {...img,
\* status: 'processing'} : img))
MarkPending(list) ==
  [i \in 1..Len(list) |->
     IF list[i].status = "pending" THEN [list[i] EXCEPT !.status = "processing"]
     ELSE list[i]]

\* The result object handleProcessImages stores for a successful analysis
StoredResult(result, isFreepikOnly, isShutterstock) ==
  [title |-> result.title, description |-> result.description,
   keywords |-> result.keywords,
   prompt |-> IF isFreepikOnly THEN result.prompt ELSE None,
   baseModel |-> IF isFreepikOnly THEN result.baseModel ELSE None,
   categories |-> IF isShutterstock THEN result.categories ELSE None]

\* the update applied to every entry of the list: a mutation of SetResult
SetResult_everyEntry(list, id, result, pf) ==
  LET isFreepikOnly == Len(pf) = 1 /\ pf[1] = "Freepik"
      isShutterstock == Len(pf) = 1 /\ pf[1] = "Shutterstock"
  IN [i \in 1..Len(list) |->
        [list[i] EXCEPT
           !.status = IF Truthy(result.error) THEN "error" ELSE "complete",
           !.result = IF Truthy(result.error) THEN None
                      ELSE Some(StoredResult(result, isFreepikOnly, isShutterstock)),
           !.error = result.error]]

\* the update without the error message: the mutation of SetResult
SetResult_dropsError(list, id, result, pf) ==
  LET isFreepikOnly == Len(pf) = 1 /\ pf[1] = "Freepik"
      isShutterstock == Len(pf) = 1 /\ pf[1] = "Shutterstock"
  IN [i \in 1..Len(list) |->
        IF list[i].id = id
        THEN [list[i] EXCEPT
                !.status = IF Truthy(result.error) THEN "error" ELSE "complete",
                !.result = IF Truthy(result.error) THEN None
                           ELSE Some(StoredResult(result, isFreepikOnly, isShutterstock))]
        ELSE list[i]]

\* setImages(prev => prev.map(img => img.id === image.id ? {...} : img))
SetResult(list, id, result, pf) ==
  LET isFreepikOnly == Len(pf) = 1 /\ pf[1] = "Freepik"
      isShutterstock == Len(pf) = 1 /\ pf[1] = "Shutterstock"
  IN [i \in 1..Len(list) |->
        IF list[i].id = id
        THEN [list[i] EXCEPT
                !.status = IF Truthy(result.error) THEN "error" ELSE "complete",
                !.result = IF Truthy(result.error) THEN None
                           ELSE Some(StoredResult(result, isFreepikOnly, isShutterstock)),
                !.error = result.error]
        ELSE list[i]]

\* Whether handleProcessImages goes on after incrementCreditsUsed() resolved
ProceedsWith_ignoreResult(canProceed) == TRUE

ProceedsWith(canProceed) == canProceed

\* incrementCreditsUsed() resolves: on false the handler returns; on true it
\* sets isProcessing, marks the pending images and calls the AI client for
\* the first image of its snapshot
CreditsResolved(r, backendOk) ==
  LET run == runs[r]
      canProceed == incrementCreditsUsedResult(backendOk)
  IN /\ run.pc = "awaitCredits"
     /\ profile' = incrementCreditsUsedProfile(backendOk)
     /\ IF ~ProceedsWith(canProceed)
        THEN /\ runs' = [runs EXCEPT ![r].pc = "done", ![r].canProceed = Some(canProceed)]
             /\ UNCHANGED <<images, isProcessing>>
        ELSE /\ isProcessing' = TRUE
             /\ images' = MarkPending(images)
             /\ runs' = [runs EXCEPT
                  ![r].pc = "awaitAI", ![r].idx = 1,
                  ![r].canProceed = Some(canProceed),
                  ![r].log = <<Event("call", run.pendingImages[1].id)>>]
     /\ UNCHANGED <<nextId, apiKey, platforms, generationMode>>
     /\ UNCHANGED sideVars

\* Whether the loop pauses before the image at position idx of the snapshot:
\* pendingImages.indexOf(image) > 0
PausesBefore_never(idx) == FALSE

PausesBefore(idx) == idx - 1 > 0

\* What the loop does after the image at idx: it goes to the next image of
\* the snapshot, or ends when there is none
LoopContinues_stopOnError(run, result) ==
  run.idx < Len(run.pendingImages) /\ ~Truthy(result.error)

LoopContinues(run, result) == run.idx < Len(run.pendingImages)

\* analyzeImageWithGemini resolves for the image at idx: its entry is
\* updated; then the loop goes on to the next image (the pause first), or the
\* handler ends and isProcessing is reset
AIReturned(r, response) ==
  LET run == runs[r]
      image == run.pendingImages[run.idx]
      options == [platforms |-> run.platforms, generationMode |-> run.generationMode]
      result == analyzeImageWithGemini(image.file, run.apiKey, options, response)
      returned == Append(run.log, Event("return", image.id))
  IN /\ run.pc = "awaitAI"
     /\ images' = SetResult(images, image.id, result, run.platforms)
     /\ IF LoopContinues(run, result)
        THEN IF PausesBefore(run.idx + 1)
             THEN /\ runs' = [runs EXCEPT ![r].pc = "delay", ![r].idx = run.idx + 1,
                                          ![r].log = Append(returned, Event("delay", 0))]
                  /\ UNCHANGED isProcessing
             ELSE /\ runs' = [runs EXCEPT ![r].pc = "awaitAI", ![r].idx = run.idx + 1,
                       ![r].log = Append(returned,
                                    Event("call", run.pendingImages[run.idx + 1].id))]
                  /\ UNCHANGED isProcessing
        ELSE /\ runs' = [runs EXCEPT ![r].pc = "done", ![r].log = returned]
             /\ isProcessing' = FALSE
     /\ UNCHANGED <<nextId, apiKey, platforms, generationMode, profile>>
     /\ UNCHANGED sideVars

\* a credit taken for every further image: the mutation of DelayElapsed
DelayElapsed_charging(r) ==
  LET run == runs[r]
  IN /\ run.pc = "delay"
     /\ runs' = [runs EXCEPT ![r].pc = "awaitAI",
                   ![r].log = Append(run.log, Event("call", run.pendingImages[run.idx].id))]
     /\ profile' = [profile EXCEPT !.credits_used = @ + 1]
     /\ UNCHANGED <<images, nextId, isProcessing, apiKey, platforms, generationMode>>
     /\ UNCHANGED sideVars

\* The 2-second pause is over: the AI client is called for the next image
DelayElapsed(r) ==
  LET run == runs[r]
  IN /\ run.pc = "delay"
     /\ runs' = [runs EXCEPT ![r].pc = "awaitAI",
                   ![r].log = Append(run.log, Event("call", run.pendingImages[run.idx].id))]
     /\ UNCHANGED <<images, nextId, isProcessing, apiKey, platforms, generationMode,
                    profile>>
     /\ UNCHANGED sideVars

\* ------------------------------------------------- environment and Spec

\* ------------------------------------------------------------ CSV export

Quote == "\""

\* `"${s}"`
Quoted(s) == <<Quote>> \o s \o <<Quote>>

DigitText == <<"0", "1", "2", "3", "4", "5", "6", "7", "8", "9">>

\* Number.prototype.toString of a natural number
RECURSIVE NatToString(_)
NatToString(n) ==
  IF n < 10 THEN <<DigitText[n + 1]>>
  ELSE NatToString(n \div 10) \o <<DigitText[(n % 10) + 1]>>

\* Array.prototype.findIndex with c => c === x: the first index, from 0, or -1
FindIndex(list, x) ==
  IF \E i \in 1..Len(list) : list[i] = x
  THEN (CHOOSE i \in 1..Len(list) :
          list[i] = x /\ \A j \in 1..(i - 1) : list[j] # x) - 1
  ELSE -1

videoHeaders == <<Quoted(<<"F","i","l","e","n","a","m","e">>), Quoted(<<"T","i","t","l","e">>), Quoted(<<"K","e","y","w","o","r","d","s">>), Quoted(<<"C","a","t","e","g","o","r","y">>)>>

CsvHeaders(isFreepikOnly, isShutterstock, isAdobeStock) ==
  IF isFreepikOnly
  THEN <<Quoted(<<"F","i","l","e"," ","n","a","m","e">>), Quoted(<<"T","i","t","l","e">>), Quoted(<<"K","e","y","w","o","r","d","s">>), Quoted(<<"P","r","o","m","p","t">>),
         Quoted(<<"B","a","s","e","-","M","o","d","e","l">>)>>
  ELSE IF isShutterstock
  THEN <<Quoted(<<"F","i","l","e","n","a","m","e">>), Quoted(<<"D","e","s","c","r","i","p","t","i","o","n">>), Quoted(<<"K","e","y","w","o","r","d","s">>),
         Quoted(<<"C","a","t","e","g","o","r","i","e","s">>)>>
  ELSE IF isAdobeStock
  THEN <<Quoted(<<"F","i","l","e","n","a","m","e">>), Quoted(<<"T","i","t","l","e">>), Quoted(<<"K","e","y","w","o","r","d","s">>), Quoted(<<"C","a","t","e","g","o","r","y">>)>>
  ELSE <<Quoted(<<"F","i","l","e","n","a","m","e">>), Quoted(<<"T","i","t","l","e">>), Quoted(<<"D","e","s","c","r","i","p","t","i","o","n">>), Quoted(<<"K","e","y","w","o","r","d","s">>)>>

\* isFreepikOnly ? ';' : ','
CsvDelimiter(isFreepikOnly) == IF isFreepikOnly THEN <<";">> ELSE <<",">>

\* img.result?.field: the field of the result, undefined (None) without one
ResultTitle(img) == IF img.result = None THEN None ELSE Some(img.result[1].title)

ResultDescription(img) ==
  IF img.result = None THEN None ELSE Some(img.result[1].description)

ResultKeywords(img) == IF img.result = None THEN None ELSE Some(img.result[1].keywords)

ResultPrompt(img) == IF img.result = None THEN None ELSE img.result[1].prompt

ResultCategories(img) == IF img.result = None THEN None ELSE img.result[1].categories

\* x?.join(sep) || ''
JoinedOrEmpty(optList, sep) == IF optList = None THEN <<>> ELSE Join(optList[1], sep)

\* img.result?.title ? removeSymbolsFromTitle(img.result.title) : ''
CleanTitle(img) ==
  IF ResultTitle(img) # None /\ ResultTitle(img)[1] # <<>>
  THEN removeSymbolsFromTitle(ResultTitle(img)[1]) ELSE <<>>

\* The 1-based index of the first category among adobeStockCategories
CategoryIndex(img) ==
  LET cats == ResultCategories(img)
  IN IF cats # None /\ Len(cats[1]) > 0
     THEN LET idx == FindIndex(adobeStockCategories, cats[1][1])
          IN IF idx # -1 THEN NatToString(idx + 1) ELSE <<>>
     ELSE <<>>

VideoRow(img) ==
  Join(<<Quoted(img.file.name), Quoted(CleanTitle(img)),
         Quoted(JoinedOrEmpty(ResultKeywords(img), <<",">>)),
         Quoted(CategoryIndex(img))>>, <<",">>)

FreepikRow(img) ==
  Join(<<Quoted(img.file.name), Quoted(CleanTitle(img)),
         Quoted(JoinedOrEmpty(ResultKeywords(img), <<",", " ">>)),
         Quoted(OrElse(ResultPrompt(img), <<>>)),
         Quoted(Leonardo)>>, <<";">>)

ShutterstockRow(img) ==
  Join(<<Quoted(img.file.name), Quoted(OrElse(ResultDescription(img), <<>>)),
         Quoted(JoinedOrEmpty(ResultKeywords(img), <<",">>)),
         Quoted(JoinedOrEmpty(ResultCategories(img), <<",">>))>>, <<",">>)

AdobeStockRow(img) ==
  Join(<<Quoted(img.file.name), Quoted(CleanTitle(img)),
         Quoted(JoinedOrEmpty(ResultKeywords(img), <<",", " ">>)),
         Quoted(JoinedOrEmpty(ResultCategories(img), <<",">>))>>, <<",">>)

DefaultRow_keywordsByComma(img) ==
  Join(<<Quoted(img.file.name), Quoted(CleanTitle(img)),
         Quoted(OrElse(ResultDescription(img), <<>>)),
         Quoted(JoinedOrEmpty(ResultKeywords(img), <<",">>))>>, <<",">>)

DefaultRow(img) ==
  Join(<<Quoted(img.file.name), Quoted(CleanTitle(img)),
         Quoted(OrElse(ResultDescription(img), <<>>)),
         Quoted(JoinedOrEmpty(ResultKeywords(img), <<",", " ">>))>>, <<",">>)

CsvRow(img, isFreepikOnly, isShutterstock, isAdobeStock) ==
  IF IsVideoType(img.file) THEN VideoRow(img)
  ELSE IF isFreepikOnly THEN FreepikRow(img)
  ELSE IF isShutterstock THEN ShutterstockRow(img)
  ELSE IF isAdobeStock THEN AdobeStockRow(img)
  ELSE DefaultRow(img)

IsExported_any(img) == TRUE

\* img => img.status === 'complete' && img.result
IsExported(img) == img.status = "complete" /\ img.result # None

RECURSIVE CsvRows_newestFirst(_, _, _, _)
CsvRows_newestFirst(list, isFreepikOnly, isShutterstock, isAdobeStock) ==
  IF list = <<>> THEN <<>>
  ELSE CsvRows_newestFirst(Tail(list), isFreepikOnly, isShutterstock, isAdobeStock)
       \o (IF IsExported(Head(list))
           THEN <<CsvRow(Head(list), isFreepikOnly, isShutterstock, isAdobeStock)>>
           ELSE <<>>)

RECURSIVE CsvRows(_, _, _, _)
CsvRows(list, isFreepikOnly, isShutterstock, isAdobeStock) ==
  IF list = <<>> THEN <<>>
  ELSE (IF IsExported(Head(list))
        THEN <<CsvRow(Head(list), isFreepikOnly, isShutterstock, isAdobeStock)>>
        ELSE <<>>)
       \o CsvRows(Tail(list), isFreepikOnly, isShutterstock, isAdobeStock)

formatImagesAsCSV(list, isFreepikOnly, isShutterstock, isAdobeStock) ==
  Join(<<Join(CsvHeaders(isFreepikOnly, isShutterstock, isAdobeStock),
              CsvDelimiter(isFreepikOnly))>>
       \o CsvRows(list, isFreepikOnly, isShutterstock, isAdobeStock), <<"\n">>)

\* One call of formatImagesAsCSV, its result kept
ExportCSV ==
  /\ csvOut = None
  /\ csvOut' = Some(formatImagesAsCSV(csvImages, csvFlags[1], csvFlags[2], csvFlags[3]))
  /\ UNCHANGED <<csvImages, csvFlags, rejectedNotices>>
  /\ UNCHANGED pureVars
  /\ UNCHANGED appVars

T_cat == <<"c","a","t">>
T_dog == <<"d","o","g">>

\* The replies of the external model the runs draw from
JsonFull ==
  Json(Some(<<"A"," ","c","a","t","!">>), Some(<<"p","e","t">>),
       Some(<<T_cat, T_dog>>), Some(<<"r","e","d"," ","c","a","t">>))

Responses ==
  { HttpError(None),
    Thrown("Failed to fetch"),
    Reply(<<"x">>, None),
    Reply(<<" ","{","}"," ">>, Some(JsonFull)) }

\* A reply whose metadata has an empty description
JsonNoDescription ==
  Json(Some(<<"A"," ","c","a","t","!">>), Some(<<>>), Some(<<T_cat, T_dog>>), None)

\* The image the orchestrator stores for file after the AI call answered
\* response, the platforms pf being selected
ProcessedAs(file, pf, response) ==
  SetResult(<<[NewImage(0, file) EXCEPT !.status = "processing"]>>, 0,
            analyzeImageWithGemini(file, "AIza-key",
              [platforms |-> pf, generationMode |-> "metadata"], response), pf)[1]

CsvPlatformChoices ==
  {<<"AdobeStock">>, <<"Freepik">>, <<"Shutterstock">>, <<"AdobeStock", "Freepik">>}

CsvResponses ==
  { Thrown("Failed to fetch"),
    Reply(<<"{", "}">>, Some(JsonFull)),
    Reply(<<"{", "}">>, Some(JsonNoDescription)) }

\* The images formatImagesAsCSV is applied to: pending, processing, and what
\* processing leaves of a photo or a clip
CsvImageChoices ==
  {NewImage(0, PhotoJpg), [NewImage(0, ClipMp4) EXCEPT !.status = "processing"]}
  \cup {ProcessedAs(file, pf, response) :
          file \in {PhotoJpg, ClipMp4}, pf \in CsvPlatformChoices,
          response \in CsvResponses}

WithIds(list) == [i \in 1..Len(list) |-> [list[i] EXCEPT !.id = i]]

CsvLists ==
  {WithIds(list) : list \in UNION {[1..k -> CsvImageChoices] : k \in 0..MaxCsvImages}}

InitialProfiles ==
  { [credits_used |-> u, credits_limit |-> FreeLimit, is_premium |-> FALSE] :
      u \in (FreeLimit - 1)..FreeLimit }
  \cup { [credits_used |-> 0, credits_limit |-> FreeLimit, is_premium |-> TRUE] }

\* No function applied on its own yet
TitleIdle ==
  /\ titleIn = <<>>
  /\ titleOut = None

CatIdle ==
  /\ catIn = [title |-> <<>>, keywords |-> <<>>, description |-> <<>>]
  /\ catOut = None

AiIdle ==
  /\ aiIn = <<>>
  /\ aiOut = None

SvgIdle ==
  /\ svgIn = <<>>
  /\ svgOut = None
  /\ svgSizes = {}

SessionIdle ==
  /\ user_sessions = {}
  /\ clock = 0
  /\ sessionReply = None

ServerIdle ==
  /\ serverRequest = None
  /\ serverReply = None
  /\ modelCalls = <<>>

KeyIdle ==
  /\ storedKey = None
  /\ authApiKey = ""
  /\ inputKey = ""

PureIdle ==
  /\ TitleIdle
  /\ CatIdle
  /\ AiIdle
  /\ SvgIdle
  /\ SessionIdle
  /\ ServerIdle
  /\ KeyIdle

CsvIdle ==
  /\ csvImages = <<>>
  /\ csvFlags = <<FALSE, FALSE, FALSE>>
  /\ csvOut = None

\* The page as it is first rendered, for a user with credits left
AppIdle ==
  /\ images = <<>>
  /\ nextId = 0
  /\ isProcessing = FALSE
  /\ apiKey = ""
  /\ platforms = <<"AdobeStock">>
  /\ generationMode = "metadata"
  /\ profile = [credits_used |-> 0, credits_limit |-> FreeLimit, is_premium |-> FALSE]
  /\ runs = [r \in Runs |-> IdleRun]

SideIdle ==
  /\ csvImages = <<>>
  /\ csvFlags = <<FALSE, FALSE, FALSE>>
  /\ csvOut = <<>>
  /\ rejectedNotices = {}
  /\ PureIdle

Init ==
  /\ images = <<>>
  /\ nextId = 0
  /\ isProcessing = FALSE
  /\ apiKey = ""
  /\ platforms = <<"AdobeStock">>
  /\ generationMode = "metadata"
  /\ profile \in InitialProfiles
  /\ runs = [r \in Runs |-> IdleRun]
  /\ SideIdle

Next ==
  \/ \E files \in FileLists : \E previewOk \in [1..Len(files) -> BOOLEAN] :
       ProcessFiles(files, previewOk)
  \/ \E id \in 1..MaxUploads : handleRemoveImage(id)
  \/ handleClearAll
  \/ \E key \in ApiKeys : handleApiKeyChange(key)
  \/ \E r \in Runs : ClickProcess(r)
  \/ \E r \in Runs : \E backendOk \in BOOLEAN : CreditsResolved(r, backendOk)
  \/ \E r \in Runs : \E response \in Responses : AIReturned(r, response)
  \/ \E r \in Runs : DelayElapsed(r)

Spec == Init /\ [][Next]_vars

\* The promises the handler awaits settle: incrementCreditsUsed() resolves,
\* every call of the AI client returns, every pause ends
Fairness ==
  \A r \in Runs :
    /\ WF_vars(\E backendOk \in BOOLEAN : CreditsResolved(r, backendOk))
    /\ WF_vars(\E response \in Responses : AIReturned(r, response))
    /\ WF_vars(DelayElapsed(r))

SpecFair == Spec /\ Fairness

\* Uploads with their notices and a single invocation of handleProcessImages
UploadFiles == Files \cup {ClipMp4}

UploadFileLists ==
  {<<f>> : f \in UploadFiles} \cup {<<PhotoJpg, g>> : g \in UploadFiles}
    \cup {<<DocPdf, ClipMp4>>}

NextUpload ==
  \/ \E files \in UploadFileLists : \E previewOk \in [1..Len(files) -> BOOLEAN] :
       ProcessFilesNoticed(files, previewOk)
  \/ \E id \in 1..MaxUploads : handleRemoveImage(id)
  \/ handleClearAll
  \/ \E key \in ApiKeys : handleApiKeyChange(key)
  \/ ClickProcess(1)
  \/ \E backendOk \in BOOLEAN : CreditsResolved(1, backendOk)
  \/ \E response \in Responses : AIReturned(1, response)
  \/ DelayElapsed(1)

SpecUpload == Init /\ [][NextUpload]_vars

\* The handler invoked directly, in the states uploads and key changes reach
NextHandler ==
  \/ \E files \in FileLists : \E previewOk \in [1..Len(files) -> BOOLEAN] :
       ProcessFiles(files, previewOk)
  \/ \E key \in ApiKeys : handleApiKeyChange(key)
  \/ \E r \in Runs : InvokeProcess(r)
  \/ \E r \in Runs : \E backendOk \in BOOLEAN : CreditsResolved(r, backendOk)
  \/ \E r \in Runs : \E response \in Responses : AIReturned(r, response)
  \/ \E r \in Runs : DelayElapsed(r)

SpecHandler == Init /\ [][NextHandler]_vars

\* formatImagesAsCSV applied to the lists and flags above
InitCSV ==
  /\ images = <<>>
  /\ nextId = 0
  /\ isProcessing = FALSE
  /\ apiKey = ""
  /\ platforms = <<"AdobeStock">>
  /\ generationMode = "metadata"
  /\ profile = [credits_used |-> 0, credits_limit |-> FreeLimit, is_premium |-> FALSE]
  /\ runs = [r \in Runs |-> IdleRun]
  /\ csvImages \in CsvLists
  /\ csvFlags \in BOOLEAN \X BOOLEAN \X BOOLEAN
  /\ csvOut = None
  /\ rejectedNotices = {}
  /\ PureIdle

NextCSV == ExportCSV

SpecCSV == InitCSV /\ [][NextCSV]_vars

\* ResultsDisplay: the Download CSV button, shown in metadata mode when an
\* image is complete, and handleDownloadCSV up to the call of downloadCSV
handleDownloadCSV ==
  LET isFreepikOnly == Len(platforms) = 1 /\ platforms[1] = "Freepik"
      isShutterstock == Len(platforms) = 1 /\ platforms[1] = "Shutterstock"
      isAdobeStock == Len(platforms) = 1 /\ platforms[1] = "AdobeStock"
  IN /\ Len(images) # 0
     /\ \E i \in 1..Len(images) : images[i].status = "complete"
     /\ generationMode = "metadata"
     /\ csvImages' = images
     /\ csvFlags' = <<isFreepikOnly, isShutterstock, isAdobeStock>>
     /\ csvOut' = Some(formatImagesAsCSV(images, isFreepikOnly, isShutterstock,
                                         isAdobeStock))
     /\ UNCHANGED appVars
     /\ UNCHANGED rejectedNotices
     /\ UNCHANGED pureVars

\* The settings and the export, over the lists processing leaves
InitSettings ==
  /\ images \in CsvLists
  /\ nextId = Len(images)
  /\ isProcessing = FALSE
  /\ apiKey = ""
  /\ platforms = <<"AdobeStock">>
  /\ generationMode = "metadata"
  /\ profile = [credits_used |-> 0, credits_limit |-> FreeLimit, is_premium |-> TRUE]
  /\ runs = [r \in Runs |-> IdleRun]
  /\ SideIdle

NextSettings ==
  \/ \E platform \in Platforms : togglePlatform(platform)
  \/ \E mode \in GenerationModes : handleModeChange(mode)
  \/ handleDownloadCSV

SpecSettings == InitSettings /\ [][NextSettings]_vars

\* removeSymbolsFromTitle applied to the titles over TitleChars
TitleChars == {"a", "Z", "7", " ", ",", "-", "(", "_", "!", "\t"}

Titles == UNION {[1..k -> TitleChars] : k \in 0..MaxTitleLen}

CleanTitleOf ==
  /\ titleOut = None
  /\ titleOut' = Some(removeSymbolsFromTitle(titleIn))
  /\ UNCHANGED <<titleIn, csvVars, rejectedNotices, catVars, aiVars, svgVars,
               sessionVars, serverVars, keyVars>>
  /\ UNCHANGED appVars

InitTitle ==
  /\ AppIdle
  /\ CsvIdle
  /\ rejectedNotices = {}
  /\ titleIn \in Titles
  /\ titleOut = None
  /\ CatIdle
  /\ AiIdle
  /\ SvgIdle
  /\ SessionIdle
  /\ ServerIdle
  /\ KeyIdle

NextTitle == CleanTitleOf

SpecTitle == InitTitle /\ [][NextTitle]_vars

\* The category matchers applied to titles, keyword lists and descriptions
CatTitles ==
  { <<>>, <<"A"," ","c","a","t"," ","a","n","d"," ","a"," ","d","o","g">>, <<"C","a","t","\t","D","O","G"," "," ","c","a","r">>, <<"c","a","r"," ","c","a","r"," ","d","o","g">>,
    <<"M","o","u","n","t","a","i","n"," ","m","o","d","e","l">>, <<"C","o","n","s","t","r","u","c","t","o","r"," ","a","t"," ","w","o","r","k">>, <<"x","y","z">>,
    <<"c","a","r"," ","d","o","g">>, <<"m","i","s","c">> }

CatKeywords == { <<>>, <<T_cat, T_dog>>, <<<<"c","a","r">>>>, <<<<"_","_","p","r","o","t","o","_","_">>>> }

CatDescriptions == { <<>>, <<"a"," ","p","e","t">>, <<"c","a","r">>, <<"B","l","u","e"," ","s","k","y">> }

\* A call of a matcher: whether it threw, the categories returned and the
\* categoryCount it accumulated
CategoryCall(threw, categories, count) ==
  [threw |-> threw, categories |-> categories, count |-> count]

SuggestCategories ==
  LET adobeText == AdobeStockCombinedText(catIn.title, catIn.keywords)
      shutterText == ShutterstockCombinedText(catIn.title, catIn.description)
  IN /\ catOut = None
     /\ catOut' = Some(
          [adobeStock |->
             IF CategoryLoopThrows(adobeText) THEN CategoryCall(TRUE, <<>>, <<>>)
             ELSE CategoryCall(FALSE,
                    suggestCategoriesForAdobeStock(catIn.title, catIn.keywords),
                    AdobeStockCategoryCount(catIn.title, catIn.keywords)),
           shutterstock |->
             IF CategoryLoopThrows(shutterText) THEN CategoryCall(TRUE, <<>>, <<>>)
             ELSE CategoryCall(FALSE,
                    suggestCategoriesForShutterstock(catIn.title, catIn.description),
                    ShutterstockCategoryCount(catIn.title, catIn.description))])
     /\ UNCHANGED <<catIn, csvVars, rejectedNotices, titleVars, aiVars, svgVars,
                  sessionVars, serverVars, keyVars>>
     /\ UNCHANGED appVars

InitCategories ==
  /\ AppIdle
  /\ CsvIdle
  /\ rejectedNotices = {}
  /\ TitleIdle
  /\ catIn \in [title : CatTitles, keywords : CatKeywords, description : CatDescriptions]
  /\ catOut = None
  /\ AiIdle
  /\ SvgIdle
  /\ SessionIdle
  /\ ServerIdle
  /\ KeyIdle

NextCategories == SuggestCategories

SpecCategories == InitCategories /\ [][NextCategories]_vars

\* analyzeImageWithGemini applied to files, options and answers of the model
JsonConstructor ==
  Json(Some(<<"C","o","n","s","t","r","u","c","t","o","r"," ","a","t"," ","w","o","r","k">>), Some(<<"p","e","t">>), Some(<<T_cat>>), None)

AnalyzeResponses ==
  { HttpError(None), HttpError(Some("")), HttpError(Some("API key not valid")),
    Thrown("Failed to fetch"), ThrownValue,
    Reply(<<"x">>, None),
    Reply(<<"{", "}">>, Some(JsonFull)),
    Reply(<<"{", "}">>, Some(JsonNoDescription)),
    Reply(<<"{", "}">>, Some(JsonConstructor)) }

AnalyzeInputs ==
  [file : {PhotoJpg, ClipMp4},
   options : [platforms : CsvPlatformChoices, generationMode : GenerationModes],
   response : AnalyzeResponses]

Analyze ==
  /\ aiOut = None
  /\ aiOut' = Some(analyzeImageWithGemini(aiIn.file, "AIza-key", aiIn.options,
                                          aiIn.response))
  /\ UNCHANGED <<aiIn, csvVars, rejectedNotices, titleVars, catVars, svgVars,
               sessionVars, serverVars, keyVars>>
  /\ UNCHANGED appVars

InitAnalyze ==
  /\ AppIdle
  /\ CsvIdle
  /\ rejectedNotices = {}
  /\ TitleIdle
  /\ CatIdle
  /\ SvgIdle
  /\ SessionIdle
  /\ ServerIdle
  /\ KeyIdle
  /\ aiIn \in AnalyzeInputs
  /\ aiOut = None

NextAnalyze == Analyze

SpecAnalyze == InitAnalyze /\ [][NextAnalyze]_vars

\* ------------------------------------------------------- SVG conversion

\* The defaults of convertSvgToPng's parameters width and height
DefaultCanvasWidth == 800

DefaultCanvasHeight == 600

\* String.prototype.endsWith
EndsWith(str, suffix) ==
  Len(str) >= Len(suffix) /\ SubSeq(str, Len(str) - Len(suffix) + 1, Len(str)) = suffix

RECURSIVE LeadingDigits(_)
LeadingDigits(str) ==
  IF str # <<>> /\ Head(str) \in Digit
  THEN <<Head(str)>> \o LeadingDigits(Tail(str)) ELSE <<>>

RECURSIVE DigitsValue(_)
DigitsValue(digits) ==
  IF digits = <<>> THEN 0
  ELSE DigitsValue(SubSeq(digits, 1, Len(digits) - 1)) * 10
       + (CHOOSE n \in 0..9 : DigitText[n + 1] = digits[Len(digits)])

\* parseInt(str, 10): the integer the string starts with, None for NaN
ParseInt(str) ==
  LET trimmed == TrimStart(str)
      signed == trimmed # <<>> /\ Head(trimmed) \in {"-", "+"}
      digits == LeadingDigits(IF signed THEN Tail(trimmed) ELSE trimmed)
  IN IF digits = <<>> THEN None
     ELSE Some(IF signed /\ Head(trimmed) = "-"
               THEN 0 - DigitsValue(digits) ELSE DigitsValue(digits))

\* parseInt(str, 10) || fallback
ParseIntOr(str, fallback) ==
  IF ParseInt(str) = None \/ ParseInt(str)[1] = 0 THEN fallback ELSE ParseInt(str)[1]

\* String.prototype.split with a separator of one character
RECURSIVE SplitChar(_, _, _)
SplitChar(str, sep, acc) ==
  IF str = <<>> THEN <<acc>>
  ELSE IF Head(str) = sep THEN <<acc>> \o SplitChar(Tail(str), sep, <<>>)
  ELSE SplitChar(Tail(str), sep, Append(acc, Head(str)))

\* A canvas of the default size whatever the SVG says
CanvasSize_alwaysDefault(svg, width, height) == <<width, height>>

\* The canvas dimensions img.onload sets: from the attributes width and
\* height, else from the viewBox, else the defaults
CanvasSize(svg, width, height) ==
  LET viewBox == IF svg.viewBox = None THEN None
                 ELSE Some(SplitChar(svg.viewBox[1], " ", <<>>))
  IN IF svg.width # None /\ svg.width[1] # <<>>
        /\ svg.height # None /\ svg.height[1] # <<>>
     THEN <<ParseIntOr(svg.width[1], width), ParseIntOr(svg.height[1], height)>>
     ELSE IF viewBox # None /\ Len(viewBox[1]) = 4
     THEN <<ParseIntOr(viewBox[1][3], width), ParseIntOr(viewBox[1][4], height)>>
     ELSE <<width, height>>

\* convertSvgToPng: the PNG file with the canvas it was drawn on, None when
\* the promise rejects (the image does not load, no context, no blob)
convertSvgToPng(svg, width, height) ==
  IF svg.loads = "ok"
  THEN Some([converted |-> TRUE, name |-> <<"c","o","n","v","e","r","t","e","d","-","s","v","g",".","p","n","g">>,
             type |-> Mime("image", "png"), canvas |-> CanvasSize(svg, width, height)])
  ELSE None

\* analyzeImageWithGemini: the file it goes on with (fileToProcess)
FileToProcess(svg) ==
  LET original == [converted |-> FALSE, name |-> svg.file.name,
                   type |-> svg.file.type, canvas |-> <<>>]
      isSvg == \/ svg.file.type = Mime("image", "svg+xml")
               \/ EndsWith(ToLowerCase(svg.file.name), <<".","s","v","g">>)
  IN IF isSvg /\ svg.loads # "unreadable"
        /\ convertSvgToPng(svg, DefaultCanvasWidth, DefaultCanvasHeight) # None
     THEN convertSvgToPng(svg, DefaultCanvasWidth, DefaultCanvasHeight)[1]
     ELSE original

DrawingSvg == [name |-> <<"v",".","s","v","g">>, type |-> Mime("image", "svg+xml"), gib |-> 0, rem |-> 512]

\* Uploaded files with the attributes of their root element, and whether
\* the file reads and the image loads
SvgInputs ==
  [file : {DrawingSvg, PhotoJpg},
   width : {None, Some(<<"1","0","0","p","x">>), Some(<<"0">>)},
   height : {None, Some(<<"5","0">>), Some(<<"a","b","c">>)},
   viewBox : {None, Some(<<"0"," ","0"," ","2","4"," ","2","4">>), Some(<<"0"," ","0"," ","2","4">>)},
   loads : {"ok", "unreadable", "broken"}]

PrepareFile ==
  \E svg \in SvgInputs :
    /\ svgIn' = svg
    /\ svgOut' = Some(FileToProcess(svg))
    /\ svgSizes' = IF FileToProcess(svg).converted
                   THEN svgSizes \cup {FileToProcess(svg).canvas} ELSE svgSizes
    /\ UNCHANGED <<csvVars, rejectedNotices, titleVars, catVars, aiVars,
                   sessionVars, serverVars, keyVars>>
    /\ UNCHANGED appVars

InitSvg ==
  /\ AppIdle
  /\ CsvIdle
  /\ rejectedNotices = {}
  /\ PureIdle

NextSvg == PrepareFile

SpecSvg == InitSvg /\ [][NextSvg]_vars

\* ------------------------------------------------------ session tracking
\* The serverless function that records a session: it reads the request body,
\* looks the address up, and upserts one row of user_sessions on session_id.

MaxClock == 3

SessionIds == {"s1", "s2"}

GeoLocated == [country |-> Some("NL"), city |-> Some("Amsterdam")]

GeoUnknown == [country |-> None, city |-> None]

SessionRow(body, now, geoData) ==
  [user_id |-> body.user_id, ip_address |-> body.ip_address,
   user_agent |-> body.user_agent, session_id |-> body.session_id,
   last_seen |-> now, country |-> geoData.country, city |-> geoData.city]

\* a plain insert: the mutation of Upsert
Upsert_insert(table, row) == table \cup {row}

\* upsert(row, {onConflict: 'session_id'}): a row whose session_id equals the
\* new row's is replaced by it; a row without session_id conflicts with none
Upsert(table, row) ==
  {r \in table : r.session_id = None \/ r.session_id # row.session_id} \cup {row}

TextReply(status, text) ==
  [status |-> status, text |-> Some(text), success |-> None, error |-> None]

SuccessReply ==
  [status |-> 200, text |-> None, success |-> Some(TRUE), error |-> None]

FailureReply(message) ==
  [status |-> 400, text |-> None, success |-> None, error |-> Some(message)]

\* the outcome of one request: the table afterwards and the response
serve(table, req, env, now) ==
  IF req.method = "OPTIONS"
  THEN [table |-> table, reply |-> TextReply(200, "ok")]
  ELSE IF env.body = "malformed"
  THEN [table |-> table, reply |-> FailureReply("Unexpected end of JSON input")]
  ELSE IF env.geo = "unreachable"
  THEN [table |-> table, reply |-> FailureReply("error sending request")]
  ELSE IF env.db = "error"
  THEN [table |-> table, reply |-> FailureReply("database error")]
  ELSE [table |-> Upsert(table, SessionRow(req.body, now,
                           IF env.geo = "located" THEN GeoLocated ELSE GeoUnknown)),
        reply |-> SuccessReply]

SessionBodies ==
  [user_id : {"u1", "u2"}, ip_address : {"10.0.0.1"},
   user_agent : {"Firefox"}, session_id : {None} \cup {Some(i) : i \in SessionIds}]

SessionRequests == [method : {"POST", "OPTIONS"}, body : SessionBodies]

SessionEnvironments ==
  [body : {"json", "malformed"}, geo : {"located", "unknown", "unreachable"},
   db : {"ok", "error"}]

TrackSession ==
  /\ clock < MaxClock
  /\ \E req \in SessionRequests, env \in SessionEnvironments :
       /\ user_sessions' = serve(user_sessions, req, env, clock + 1).table
       /\ sessionReply' = Some([request |-> req,
                                reply |-> serve(user_sessions, req, env, clock + 1).reply])
  /\ clock' = clock + 1
  /\ UNCHANGED <<appVars, csvVars, rejectedNotices, titleVars, catVars, aiVars,
                 svgVars, serverVars, keyVars>>

InitSessions ==
  /\ AppIdle
  /\ CsvIdle
  /\ rejectedNotices = {}
  /\ PureIdle

NextSessions == TrackSession

SpecSessions == InitSessions /\ [][NextSessions]_vars

\* ------------------------------------------------------ companion server
\* The express server: POST /api/process-svg proxies to the model, GET /health
\* answers at once. modelCalls is the sequence of prompts sent to the model.

MaxModelCalls == 2

ServerReply(status) ==
  [status |-> status, success |-> None, result |-> None, error |-> None,
   details |-> None, health |-> None]

\* the guard on undefined alone: the mutation of SvgContentMissing
SvgContentMissing_undefinedOnly(body) == body.svgContent = None

\* !svgContent
SvgContentMissing(body) == ~Truthy(body.svgContent)

\* the prompt: its wording by mode, the query or the default question, the SVG
ServerPrompt(body) ==
  IF body.mode = Some("text")
  THEN [wording |-> "structure",
        question |-> IF Truthy(body.query) THEN body.query[1]
                     ELSE "Describe the SVG structure and elements",
        svg |-> body.svgContent[1]]
  ELSE [wording |-> "visual",
        question |-> IF Truthy(body.query) THEN body.query[1]
                     ELSE "Describe what you see in this image",
        svg |-> body.svgContent[1]]

\* app.post('/api/process-svg'): the prompts sent afterwards and the response;
\* answer is what the model does with the prompt
processSvg(calls, body, answer) ==
  IF SvgContentMissing(body)
  THEN [calls |-> calls,
        reply |-> [ServerReply(400) EXCEPT !.error = Some("SVG content is required")]]
  ELSE IF answer.kind = "text"
  THEN [calls |-> Append(calls, ServerPrompt(body)),
        reply |-> [ServerReply(200) EXCEPT !.success = Some(TRUE),
                                           !.result = Some(answer.text)]]
  ELSE [calls |-> Append(calls, ServerPrompt(body)),
        reply |-> [ServerReply(500) EXCEPT !.success = Some(FALSE),
                                           !.error = Some("Failed to process SVG"),
                                           !.details = Some(answer.text)]]

\* app.get('/health')
health(calls) ==
  [calls |-> calls, reply |-> [ServerReply(200) EXCEPT !.health = Some("ok")]]

ServerBodies ==
  [svgContent : {None, Some(""), Some("<svg><circle r='4'/></svg>")},
   query : {None, Some(""), Some("How many circles?")},
   mode : {None, Some("text"), Some("image")}]

ServerRequests ==
  [route : {"POST /api/process-svg", "GET /health"}, body : ServerBodies]

\* generateContent and response.text(): a text, or an exception
ModelAnswers ==
  {[kind |-> "text", text |-> "One circle."], [kind |-> "text", text |-> ""],
   [kind |-> "throws", text |-> "fetch failed"],
   [kind |-> "throws", text |-> "Response was blocked"]}

HandleRequest ==
  /\ Len(modelCalls) < MaxModelCalls
  /\ \E req \in ServerRequests, answer \in ModelAnswers :
       LET out == IF req.route = "GET /health" THEN health(modelCalls)
                  ELSE processSvg(modelCalls, req.body, answer)
       IN /\ serverRequest' = Some(req)
          /\ serverReply' = Some(out.reply)
          /\ modelCalls' = out.calls
  /\ UNCHANGED <<appVars, csvVars, rejectedNotices, titleVars, catVars, aiVars,
                 svgVars, sessionVars, keyVars>>

InitServer ==
  /\ AppIdle
  /\ CsvIdle
  /\ rejectedNotices = {}
  /\ PureIdle

NextServer == HandleRequest

SpecServer == InitServer /\ [][NextServer]_vars

\* ------------------------------------------------------ the header's key
\* AppHeader and the page's apiKey: the key saved in localStorage, the key of
\* the auth context, the effects that run after a render.

AuthKeys == {"", "AIza-auth"}

TypedKeys == {"", "AIza-key", "AIza-new"}

\* Index, when it mounts: localStorage.getItem('gemini-api-key') || authApiKey,
\* set as apiKey when it is not empty
MountedKey(stored, auth) ==
  IF Truthy(stored) THEN stored[1] ELSE auth

\* AppHeader's effect on [authApiKey, apiKey]: an empty apiKey is replaced by
\* the key of the auth context; the result is the apiKey after the effects
HeaderEffect(key, auth) == IF auth # "" /\ key = "" THEN auth ELSE key

\* onChange of the input
TypeKey(key) ==
  /\ inputKey' = key
  /\ inputKey' # inputKey
  /\ UNCHANGED <<storedKey, authApiKey>>
  /\ UNCHANGED <<appVars, csvVars, rejectedNotices, titleVars, catVars, aiVars,
                 svgVars, sessionVars, serverVars>>

\* handleSaveKey, with the effects of the render that follows
handleSaveKey ==
  /\ inputKey # ""
  /\ storedKey' = Some(inputKey)
  /\ apiKey' = HeaderEffect(inputKey, authApiKey)
  /\ inputKey' = apiKey'
  /\ UNCHANGED authApiKey
  /\ UNCHANGED <<images, nextId, isProcessing, platforms, generationMode, profile, runs>>
  /\ UNCHANGED <<csvVars, rejectedNotices, titleVars, catVars, aiVars,
                 svgVars, sessionVars, serverVars>>

\* handleClearKey, with the effects of the render that follows
handleClearKey ==
  /\ storedKey' = None
  /\ apiKey' = HeaderEffect("", authApiKey)
  /\ inputKey' = apiKey'
  /\ UNCHANGED authApiKey
  /\ UNCHANGED <<images, nextId, isProcessing, platforms, generationMode, profile, runs>>
  /\ UNCHANGED <<csvVars, rejectedNotices, titleVars, catVars, aiVars,
                 svgVars, sessionVars, serverVars>>

InitKey ==
  /\ images = <<NewImage(1, PhotoJpg), NewImage(2, PhotoJpg)>>
  /\ nextId = 2
  /\ isProcessing = FALSE
  /\ storedKey \in {None, Some("AIza-key")}
  /\ authApiKey \in AuthKeys
  /\ apiKey = HeaderEffect(MountedKey(storedKey, authApiKey), authApiKey)
  /\ inputKey = apiKey
  /\ platforms = <<"AdobeStock">>
  /\ generationMode = "metadata"
  /\ profile = [credits_used |-> 0, credits_limit |-> FreeLimit, is_premium |-> TRUE]
  /\ runs = [r \in Runs |-> IdleRun]
  /\ CsvIdle
  /\ rejectedNotices = {}
  /\ TitleIdle
  /\ CatIdle
  /\ AiIdle
  /\ SvgIdle
  /\ SessionIdle
  /\ ServerIdle

NextKey ==
  \/ \E key \in TypedKeys : TypeKey(key)
  \/ handleSaveKey
  \/ handleClearKey
  \/ ClickProcess(1)
  \/ \E backendOk \in BOOLEAN : CreditsResolved(1, backendOk)
  \/ \E response \in Responses : AIReturned(1, response)
  \/ DelayElapsed(1)

SpecKey == InitKey /\ [][NextKey]_vars

\* ---------------------------------------------------------------- claims

ImageIds(list) == {list[i].id : i \in 1..Len(list)}

ImageWithId(list, id) == list[CHOOSE i \in 1..Len(list) : list[i].id = id]

\* The image whose AI call run r is waiting for
InFlightId(r) == runs[r].pendingImages[runs[r].idx].id

CallIds(log) == {log[i].id : i \in {j \in 1..Len(log) : log[j].ev = "call"}}

Count(log, ev) == Cardinality({i \in 1..Len(log) : log[i].ev = ev})

IsPrefix(a, b) == Len(a) <= Len(b) /\ SubSeq(b, 1, Len(a)) = a

\* What a run over the snapshot p logs from its image k on: the pause before
\* every image but the first, the call, its return
RECURSIVE FullLogFrom(_, _)
FullLogFrom(p, k) ==
  IF k > Len(p) THEN <<>>
  ELSE (IF k > 1 THEN <<Event("delay", 0)>> ELSE <<>>)
       \o <<Event("call", p[k].id), Event("return", p[k].id)>>
       \o FullLogFrom(p, k + 1)

RunCompleted(r) == runs[r].pc = "done" /\ runs[r].canProceed = Some(TRUE)

\* C1: while a batch is processed, at most one image of the list has status
\* 'processing' at any time.
C1_AtMostOneProcessing ==
  Cardinality({i \in 1..Len(images) : images[i].status = "processing"}) <= 1

\* C2: a run over n pending images calls the AI client for them one after
\* another in list order, each call after the return of the one before, and
\* pauses exactly once before every call but the first (n - 1 pauses), also
\* after an image that ended in error.
C2_SequentialCallsWithPauses ==
  \A r \in Runs :
    LET p == runs[r].pendingImages
    IN /\ \A i, j \in 1..Len(p) : i < j => p[i].id < p[j].id
       /\ IsPrefix(runs[r].log, FullLogFrom(p, 1))
       /\ runs[r].pc = "awaitAI" => runs[r].log[Len(runs[r].log)].ev = "call"
       /\ runs[r].pc = "delay" => runs[r].log[Len(runs[r].log)].ev = "delay"
       /\ RunCompleted(r) =>
            /\ runs[r].log = FullLogFrom(p, 1)
            /\ Count(runs[r].log, "call") = Len(p)
            /\ Count(runs[r].log, "delay") = Len(p) - 1

C2_Witness ==
  \E r \in Runs :
    /\ RunCompleted(r)
    /\ Len(runs[r].pendingImages) = 3
    /\ Count(runs[r].log, "delay") = 2
    /\ runs[r].pendingImages[1].id \in ImageIds(images)
    /\ ImageWithId(images, runs[r].pendingImages[1].id).status = "error"

\* C3: at most one AI call is in flight for any given image at any time.
C3_OneCallInFlightPerImage ==
  \A r1, r2 \in Runs :
    (r1 # r2 /\ runs[r1].pc = "awaitAI" /\ runs[r2].pc = "awaitAI")
      => InFlightId(r1) # InFlightId(r2)

\* C4: every status change of an image is pending->processing,
\* processing->complete or processing->error.
C4_StatusTransitions ==
  [][\A i \in 1..Len(images) : \A j \in 1..Len(images') :
       images[i].id = images'[j].id =>
         \/ images'[j].status = images[i].status
         \/ <<images[i].status, images'[j].status>> \in
              { <<"pending", "processing">>, <<"processing", "complete">>,
                <<"processing", "error">> }]_vars

C6_ErrorIsPerImage ==
  /\ [](\A r \in Runs :
          /\ Count(runs[r].log, "call") = Cardinality(CallIds(runs[r].log))
          /\ RunCompleted(r) =>
               \A k \in 1..Len(runs[r].pendingImages) :
                  runs[r].pendingImages[k].id \in CallIds(runs[r].log))
  /\ [][\A r \in Runs : \A response \in Responses :
          LET run == runs[r]
              image == run.pendingImages[run.idx]
              result == analyzeImageWithGemini(image.file, run.apiKey,
                          [platforms |-> run.platforms,
                           generationMode |-> run.generationMode], response)
          IN (AIReturned(r, response) /\ result.error # None) =>
               /\ \A i \in 1..Len(images') :
                    images'[i].id = image.id =>
                      /\ images'[i].status = "error"
                      /\ images'[i].error = result.error
                      /\ images'[i].result = None
               /\ run.idx < Len(run.pendingImages) =>
                    runs'[r].pc = "delay" /\ runs'[r].idx = run.idx + 1]_vars

C6_Witness ==
  \E r \in Runs :
    /\ RunCompleted(r)
    /\ Len(runs[r].pendingImages) >= 2
    /\ {runs[r].pendingImages[1].id, runs[r].pendingImages[2].id} \subseteq ImageIds(images)
    /\ ImageWithId(images, runs[r].pendingImages[1].id).status = "error"
    /\ ImageWithId(images, runs[r].pendingImages[1].id).error # None
    /\ ImageWithId(images, runs[r].pendingImages[2].id).status = "complete"

\* A size of at most 10 GB, in bytes gib * 2^30 + rem
WithinTenGB(file) == file.gib < 10 \/ (file.gib = 10 /\ file.rem = 0)

\* C7: a file whose MIME type is not accepted or whose size exceeds 10 GB is
\* never in the image list and never the file of an AI call; every entry
\* that is added has status 'pending', no result and no error.
C7_InvalidFilesNeverEnter ==
  /\ [](\A i \in 1..Len(images) :
          /\ images[i].file.type \in acceptedTypes
          /\ WithinTenGB(images[i].file)
          /\ images[i].file \notin rejectedNotices)
  /\ [](\A r \in Runs : \A id \in CallIds(runs[r].log) :
          \E k \in 1..Len(runs[r].pendingImages) :
             /\ runs[r].pendingImages[k].id = id
             /\ runs[r].pendingImages[k].file.type \in acceptedTypes
             /\ WithinTenGB(runs[r].pendingImages[k].file)
             /\ runs[r].pendingImages[k].file \notin rejectedNotices)
  /\ [][\A j \in 1..Len(images') :
          images'[j].id \notin ImageIds(images) =>
            /\ images'[j].status = "pending"
            /\ images'[j].result = None
            /\ images'[j].error = None]_vars

C7_Witness ==
  /\ {DocPdf, HugePng} \subseteq rejectedNotices
  /\ \E i \in 1..Len(images) : images[i].status = "pending" /\ images[i].file = PhotoJpg
  /\ \E i \in 1..Len(images) : images[i].status = "complete"
  /\ CallIds(runs[1].log) # {}

\* C8: an image removed from the list before its turn in a running batch is
\* not called: the loop calls the AI client only for images still listed.
C8_RemovedImageNotCalled ==
  [][\A r \in Runs :
       (runs[r].pc = "delay" /\ runs'[r].pc = "awaitAI")
         => runs[r].pendingImages[runs[r].idx].id \in ImageIds(images)]_vars

CompletedIn(list) == {i \in 1..Len(list) : list[i].status = "complete"}

\* The header line of the layout the flags select
HeaderLine ==
  IF csvFlags[1] THEN <<"\"","F","i","l","e"," ","n","a","m","e","\"",";","\"","T","i","t","l","e","\"",";","\"","K","e","y","w","o","r","d","s","\"",";","\"","P","r","o","m","p","t","\"",";","\"","B","a","s","e","-","M","o","d","e","l","\"">>
  ELSE IF csvFlags[2] THEN <<"\"","F","i","l","e","n","a","m","e","\"",",","\"","D","e","s","c","r","i","p","t","i","o","n","\"",",","\"","K","e","y","w","o","r","d","s","\"",",","\"","C","a","t","e","g","o","r","i","e","s","\"">>
  ELSE IF csvFlags[3] THEN <<"\"","F","i","l","e","n","a","m","e","\"",",","\"","T","i","t","l","e","\"",",","\"","K","e","y","w","o","r","d","s","\"",",","\"","C","a","t","e","g","o","r","y","\"">>
  ELSE <<"\"","F","i","l","e","n","a","m","e","\"",",","\"","T","i","t","l","e","\"",",","\"","D","e","s","c","r","i","p","t","i","o","n","\"",",","\"","K","e","y","w","o","r","d","s","\"">>

\* C9: applied to a list without a completed image (the empty list too),
\* formatImagesAsCSV returns exactly the header line of the layout, with no
\* data row and no newline, whatever the three flags are.
C9_HeaderOnlyWithoutCompleted ==
  (csvOut # None /\ CompletedIn(csvImages) = {}) =>
     /\ csvOut[1] = HeaderLine
     /\ \A i \in 1..Len(csvOut[1]) : csvOut[1][i] # "\n"

C9_Witness ==
  /\ csvOut # None
  /\ Len(csvImages) = 2
  /\ csvImages[1].status = "error"
  /\ csvImages[2].status = "pending"
  /\ csvFlags = <<FALSE, TRUE, TRUE>>

\* C10: in the default layout (no flag set) and with a single completed
\* image, not a video, whose description is empty, formatImagesAsCSV returns
\* the header line, a newline and one row of four quoted fields separated by
\* commas: the file name, the title, "" and the keywords joined by ", ".
C10_DefaultRowOfOneImage ==
  \A i \in 1..Len(csvImages) :
    ( /\ csvOut # None
      /\ csvFlags = <<FALSE, FALSE, FALSE>>
      /\ CompletedIn(csvImages) = {i}
      /\ csvImages[i].result # None
      /\ csvImages[i].result[1].description = <<>>
      /\ csvImages[i].file.type[1] # "video" )
    => csvOut[1] =
         <<"\"","F","i","l","e","n","a","m","e","\"",",","\"","T","i","t","l","e","\"",",","\"","D","e","s","c","r","i","p","t","i","o","n","\"",",","\"","K","e","y","w","o","r","d","s","\"">> \o <<"\n">>
         \o <<"\"">> \o csvImages[i].file.name \o <<"\"", ",">>
         \o <<"\"">> \o csvImages[i].result[1].title \o <<"\"", ",">>
         \o <<"\"", "\"", ",">>
         \o <<"\"">> \o Join(csvImages[i].result[1].keywords, <<",", " ">>) \o <<"\"">>

C10_Witness ==
  /\ csvOut # None
  /\ csvFlags = <<FALSE, FALSE, FALSE>>
  /\ Len(csvImages) = 2
  /\ csvImages[1].status = "error"
  /\ csvImages[2].status = "complete"
  /\ csvImages[2].file = PhotoJpg
  /\ csvImages[2].result[1].description = <<>>
  /\ csvImages[2].result[1].title = <<"A", " ", "c", "a", "t">>
  /\ Len(csvImages[2].result[1].keywords) = 2

\* The text up to its first newline
FirstLine(text) ==
  IF \E i \in 1..Len(text) : text[i] = "\n"
  THEN SubSeq(text, 1, (CHOOSE i \in 1..Len(text) :
                          text[i] = "\n" /\ \A j \in 1..(i - 1) : text[j] # "\n") - 1)
  ELSE text

Occurrences(text, c) == Cardinality({i \in 1..Len(text) : text[i] = c})

\* C11: after any sequence of platform selections exactly one platform is
\* selected; at an export at most one of the three flags is set, and the
\* header is that of the one layout the flags select: five columns separated
\* by ';' for Freepik, four columns separated by ',' for the three others.
C11_OneLayoutPerSelection ==
  /\ Len(platforms) = 1
  /\ platforms[1] \in Platforms
  /\ csvOut # None =>
       /\ Cardinality({k \in 1..3 : csvFlags[k]}) <= 1
       /\ FirstLine(csvOut[1]) = HeaderLine
       /\ IF csvFlags[1]
          THEN /\ Occurrences(FirstLine(csvOut[1]), ";") = 4
               /\ Occurrences(FirstLine(csvOut[1]), ",") = 0
               /\ Occurrences(FirstLine(csvOut[1]), "\"") = 10
          ELSE /\ Occurrences(FirstLine(csvOut[1]), ",") = 3
               /\ Occurrences(FirstLine(csvOut[1]), ";") = 0
               /\ Occurrences(FirstLine(csvOut[1]), "\"") = 8

C11_Witness ==
  /\ csvOut # None
  /\ csvFlags = <<TRUE, FALSE, FALSE>>
  /\ platforms = <<"Canva">>
  /\ Len(csvImages) = 2

RECURSIVE SplitLines(_)
SplitLines(text) ==
  IF \E i \in 1..Len(text) : text[i] = "\n"
  THEN <<FirstLine(text)>>
       \o SplitLines(SubSeq(text, Len(FirstLine(text)) + 2, Len(text)))
  ELSE <<text>>

\* The images with status 'complete' and a result, in list order
CompletedImages(list) ==
  SelectSeq(list, LAMBDA img : img.status = "complete" /\ img.result # None)

\* C12: the CSV has the header line and then exactly one row per image with
\* status 'complete' and a result, in list order (row k starts with the
\* quoted file name of the k-th such image); other images give no row.
C12_OneRowPerCompleted ==
  csvOut # None =>
    LET lines == SplitLines(csvOut[1])
        done == CompletedImages(csvImages)
    IN /\ Len(lines) = 1 + Len(done)
       /\ \A k \in 1..Len(done) :
            LET start == <<"\"">> \o done[k].file.name \o <<"\"">>
            IN /\ Len(lines[k + 1]) > Len(start)
               /\ SubSeq(lines[k + 1], 1, Len(start)) = start

C12_Witness ==
  /\ csvOut # None
  /\ Len(csvImages) = 2
  /\ csvImages[1].status = "complete" /\ csvImages[1].file = ClipMp4
  /\ csvImages[2].status = "complete" /\ csvImages[2].file = PhotoJpg
  /\ Len(SplitLines(csvOut[1])) = 3

\* The characters the claim keeps: alphanumeric, space, comma, period,
\* hyphen, parentheses
KeptByClaim == Lower \cup Upper \cup Digit \cup {" ", ",", ".", "-", "(", ")"}

\* C13: removeSymbolsFromTitle(t) is t without every character that is not
\* alphanumeric, space, comma, period, hyphen or parenthesis, the others kept
\* in order.
C13_OnlyAllowedClassesKept ==
  titleOut # None =>
    titleOut[1] = SelectSeq(titleIn, LAMBDA c : c \in KeptByClaim)

\* categoryCount[category], 0 when the category was never counted
CountOf(count, category) ==
  IF \E i \in 1..Len(count) : count[i][1] = category
  THEN (CHOOSE e \in {count[i] : i \in 1..Len(count)} : e[1] = category)[2]
  ELSE 0

CatAndDog == catIn.title = <<"A"," ","c","a","t"," ","a","n","d"," ","a"," ","d","o","g">> /\ catIn.keywords = <<T_cat, T_dog>>

\* C14: for the keywords ["cat","dog"] and the title "A cat and a dog" each
\* matcher returns exactly one category, its animals category (["Animals"]
\* for AdobeStock, ["Animals/Wildlife"] for Shutterstock), counted 2.
C14_AnimalsCountedTwice ==
  (catOut # None /\ CatAndDog) =>
    /\ ~catOut[1].adobeStock.threw
    /\ catOut[1].adobeStock.categories = << <<"A","n","i","m","a","l","s">> >>
    /\ CountOf(catOut[1].adobeStock.count, <<"A","n","i","m","a","l","s">>) = 2
    /\ ~catOut[1].shutterstock.threw
    /\ catOut[1].shutterstock.categories = << <<"A","n","i","m","a","l","s","/","W","i","l","d","l","i","f","e">> >>
    /\ CountOf(catOut[1].shutterstock.count, <<"A","n","i","m","a","l","s","/","W","i","l","d","l","i","f","e">>) = 2

\* C14, amended: for these keywords and this title suggestCategoriesForAdobeStock
\* returns ["Animals"], counted 4 (the tokens of the title and of the
\* keywords); suggestCategoriesForShutterstock, applied to the title and an
\* empty description, returns ["Animals/Wildlife", "Miscellaneous"], the
\* first counted 2.
C14_AnimalsAmended ==
  (catOut # None /\ CatAndDog) =>
    /\ ~catOut[1].adobeStock.threw
    /\ catOut[1].adobeStock.categories = << <<"A","n","i","m","a","l","s">> >>
    /\ CountOf(catOut[1].adobeStock.count, <<"A","n","i","m","a","l","s">>) = 4
    /\ catIn.description = <<>> =>
         /\ ~catOut[1].shutterstock.threw
         /\ catOut[1].shutterstock.categories = << <<"A","n","i","m","a","l","s","/","W","i","l","d","l","i","f","e">>, <<"M","i","s","c","e","l","l","a","n","e","o","u","s">> >>
         /\ CountOf(catOut[1].shutterstock.count, <<"A","n","i","m","a","l","s","/","W","i","l","d","l","i","f","e">>) = 2

C14_Witness == catOut # None /\ CatAndDog /\ catIn.description = <<>>

\* The number of the tokens of text, lowercased and split on whitespace,
\* that the table lists under category
TokensUnder(text, table, category) ==
  LET words == SplitWhitespace(ToLowerCase(text))
  IN Cardinality({i \in 1..Len(words) :
                    /\ words[i] \in DOMAIN table
                    /\ \E j \in 1..Len(table[words[i]]) : table[words[i]][j] = category})

\* The call returned n categories: the hardcoded defaults when nothing was
\* counted, else categories in descending order of their counts, none left
\* out having a greater count, each count being the number of tokens the
\* table lists under the category
TopByCount(call, n, text, table, defaults) ==
  /\ ~call.threw
  /\ Len(call.categories) = n
  /\ call.count = <<>> => call.categories = defaults
  /\ \A i \in 1..Len(call.count) :
       call.count[i][2] = TokensUnder(text, table, call.count[i][1])
  /\ \A k \in 1..n :
       k <= Len(call.count) =>
         /\ CountOf(call.count, call.categories[k]) > 0
         /\ \A j \in 1..(k - 1) :
              CountOf(call.count, call.categories[j]) >= CountOf(call.count, call.categories[k])
         /\ \A i \in 1..Len(call.count) :
              (\A j \in 1..k : call.categories[j] # call.count[i][1]) =>
                call.count[i][2] <= CountOf(call.count, call.categories[k])

\* C15: the matchers lowercase the combined text, split it on whitespace,
\* count per category the tokens found in the table and return the top
\* categories by descending count: AdobeStock exactly 1, Shutterstock exactly
\* 2, the defaults ('Animals'; 'Miscellaneous', 'Objects') when no token matches.
C15_TopNCategories ==
  catOut # None =>
    /\ TopByCount(catOut[1].adobeStock, 1,
                  catIn.title \o <<" ">> \o Join(catIn.keywords, <<" ">>),
                  adobeStockCategoryMatches, << <<"A","n","i","m","a","l","s">> >>)
    /\ TopByCount(catOut[1].shutterstock, 2,
                  catIn.title \o <<" ">> \o catIn.description,
                  shutterstockCategoryMatches, << <<"M","i","s","c","e","l","l","a","n","e","o","u","s">>, <<"O","b","j","e","c","t","s">> >>)

\* A result carrying only the error: empty title, description and keywords,
\* a message that is not empty, no prompt, baseModel or categories
ErrorOnly(result) ==
  /\ result.title = <<>>
  /\ result.description = <<>>
  /\ result.keywords = <<>>
  /\ result.error # None
  /\ result.error[1] # ""
  /\ result.prompt = None
  /\ result.baseModel = None
  /\ result.categories = None

\* C18: analyzeImageWithGemini returns a result in every case; after a
\* non-OK HTTP response, a reply that does not parse (in metadata mode) or
\* another exception the result carries only the error, and a result with
\* an error never carries anything else.
C18_FailureGivesErrorOnly ==
  aiOut # None =>
    /\ ( \/ aiIn.response.kind \in {"httpError", "thrown"}
         \/ /\ aiIn.response.kind = "reply"
            /\ aiIn.options.generationMode = "metadata"
            /\ aiIn.response.json = None )
       => ErrorOnly(aiOut[1])
    /\ aiOut[1].error # None => ErrorOnly(aiOut[1])
    /\ aiOut[1].error = None =>
         /\ aiIn.response.kind = "reply"
         /\ aiIn.options.generationMode = "metadata" => aiIn.response.json # None

C18_Witness ==
  /\ aiOut # None
  /\ aiIn.response = HttpError(Some(""))
  /\ aiOut[1].error = Some("Failed to analyze image")
  /\ aiOut[1].title = <<>>

SvgPrepared == svgOut # None /\ svgIn.file.type = Mime("image", "svg+xml")

RowsOf(table, sid) == {r \in table : r.session_id = Some(sid)}

Upserted ==
  /\ sessionReply' # None
  /\ clock' # clock
  /\ sessionReply'[1].reply.success = Some(TRUE)

\* C16: the session function upserts on session_id: the table never holds two
\* rows of one session_id, and a successful request whose session_id is already
\* in the table leaves the number of rows as it was, the rows of every other
\* session untouched, and writes the fields of the request into that row.
C16_IdempotentUpsert ==
  /\ [](\A sid \in SessionIds : Cardinality(RowsOf(user_sessions, sid)) <= 1)
  /\ [][\A sid \in SessionIds :
          (Upserted /\ sessionReply'[1].request.body.session_id = Some(sid)
                    /\ RowsOf(user_sessions, sid) # {})
          => /\ Cardinality(user_sessions') = Cardinality(user_sessions)
             /\ user_sessions' \ RowsOf(user_sessions', sid)
                  = user_sessions \ RowsOf(user_sessions, sid)
             /\ \A r \in RowsOf(user_sessions', sid) :
                  /\ r.user_id = sessionReply'[1].request.body.user_id
                  /\ r.ip_address = sessionReply'[1].request.body.ip_address
                  /\ r.last_seen = clock']_vars

C16_Witness ==
  /\ clock = 3
  /\ sessionReply # None
  /\ sessionReply[1].reply.success = Some(TRUE)
  /\ sessionReply[1].request.body.session_id = Some("s1")
  /\ \E r \in user_sessions : r.session_id = Some("s2")
  /\ \E r \in RowsOf(user_sessions, "s1") : r.last_seen = 3 /\ r.user_id = "u2"
  /\ Cardinality(user_sessions) = 2

ErroredIds(list) == {list[i].id : i \in {j \in 1..Len(list) : list[j].status = "error"}}

\* C17: within a run no image is called twice, and a run started by the user
\* processes again every image of the list that ended in 'error': such an
\* image is in the snapshot the run takes.
C17_RerunProcessesErrored ==
  /\ [](\A r \in Runs :
          Count(runs[r].log, "call") = Cardinality(CallIds(runs[r].log)))
  /\ [][\A r \in Runs :
          (runs[r].pc = "idle" /\ runs'[r].pc # "idle")
            => ErroredIds(images) \subseteq ImageIds(runs'[r].pendingImages)]_vars

Served == serverRequest' # None /\ serverReply' # None

\* C20: POST /api/process-svg with svgContent missing or empty answers 400 with
\* an error and sends nothing to the model; with any other svgContent it sends
\* exactly one prompt, and answers success:true with the model's text, or 500
\* with success:false when the call throws; GET /health answers {status:'ok'}
\* and sends nothing to the model.
C20_ServerResponses ==
  [][Served =>
       LET req == serverRequest'[1]
           reply == serverReply'[1]
       IN IF req.route = "GET /health"
          THEN /\ reply = [ServerReply(200) EXCEPT !.health = Some("ok")]
               /\ modelCalls' = modelCalls
          ELSE IF req.body.svgContent \in {None, Some("")}
          THEN /\ reply.status = 400
               /\ reply.error # None
               /\ reply.success = None
               /\ modelCalls' = modelCalls
          ELSE /\ Len(modelCalls') = Len(modelCalls) + 1
               /\ SubSeq(modelCalls', 1, Len(modelCalls)) = modelCalls
               /\ modelCalls'[Len(modelCalls')].svg = req.body.svgContent[1]
               /\ \/ /\ reply.status = 200
                     /\ reply.success = Some(TRUE)
                     /\ reply.result # None
                     /\ \E a \in ModelAnswers : a.kind = "text" /\ reply.result = Some(a.text)
                  \/ /\ reply.status = 500
                     /\ reply.success = Some(FALSE)
                     /\ reply.result = None]_vars

C20_Witness ==
  /\ serverRequest # None
  /\ serverRequest[1].route = "POST /api/process-svg"
  /\ serverRequest[1].body.svgContent = Some("")
  /\ serverReply # None
  /\ serverReply[1].status = 400
  /\ Len(modelCalls) = 1
  /\ modelCalls[1].wording = "structure"

\* The position in the text, lowercased and split on whitespace, of the first
\* token the table lists under category; 0 when there is none
FirstTokenOf(text, table, category) ==
  LET words == SplitWhitespace(ToLowerCase(text))
      hits == {i \in 1..Len(words) :
                 /\ words[i] \in DOMAIN table
                 /\ \E j \in 1..Len(table[words[i]]) : table[words[i]][j] = category}
  IN IF hits = {} THEN 0 ELSE CHOOSE i \in hits : \A k \in hits : i <= k

PositionIn(list, x) ==
  IF \E i \in 1..Len(list) : list[i] = x
  THEN CHOOSE i \in 1..Len(list) : list[i] = x /\ \A k \in 1..(i - 1) : list[k] # x
  ELSE 0

\* Of two counted categories with equal counts, the one whose first token
\* comes earlier in the text is never ranked behind or left out for the other
TiesByFirstToken(call, text, table) ==
  ~call.threw =>
    \A i, j \in 1..Len(call.count) :
      LET a == call.count[i][1]
          b == call.count[j][1]
      IN (/\ call.count[i][2] = call.count[j][2]
          /\ FirstTokenOf(text, table, a) < FirstTokenOf(text, table, b)
          /\ PositionIn(call.categories, b) > 0
          /\ PositionIn(call.categories, b) <= Len(call.count))
         => /\ PositionIn(call.categories, a) > 0
            /\ PositionIn(call.categories, a) < PositionIn(call.categories, b)

\* C21: among categories with equal match counts the one whose first matching
\* token occurs earliest in the combined text is ranked first, for both
\* matchers.
C21_TiesByFirstInsertion ==
  catOut # None =>
    /\ TiesByFirstToken(catOut[1].adobeStock,
                        catIn.title \o <<" ">> \o Join(catIn.keywords, <<" ">>),
                        adobeStockCategoryMatches)
    /\ TiesByFirstToken(catOut[1].shutterstock,
                        catIn.title \o <<" ">> \o catIn.description,
                        shutterstockCategoryMatches)

C21_Witness ==
  /\ catOut # None
  /\ catIn.title = <<"c","a","r"," ","d","o","g">>
  /\ catIn.description = <<>>
  /\ catOut[1].shutterstock.count =
       << << <<"T","r","a","n","s","p","o","r","t","a","t","i","o","n">>, 1 >>,
          << <<"A","n","i","m","a","l","s","/","W","i","l","d","l","i","f","e">>, 1 >> >>
  /\ catOut[1].shutterstock.categories =
       << <<"T","r","a","n","s","p","o","r","t","a","t","i","o","n">>,
          <<"A","n","i","m","a","l","s","/","W","i","l","d","l","i","f","e">> >>

StatusOf(id) ==
  IF id \in ImageIds(images) THEN ImageWithId(images, id).status ELSE "removed"

\* C22: when the awaited promises settle, every image that becomes
\* 'processing' later is 'complete', 'error' or removed, and isProcessing
\* returns to false.
C22_ProcessingEnds ==
  /\ \A id \in 1..MaxUploads :
       (StatusOf(id) = "processing") ~> (StatusOf(id) \in {"complete", "error", "removed"})
  /\ isProcessing ~> ~isProcessing

\* What the AI client returns for file when AdobeStock alone is selected
AdobeStockAnalysis(file, response) ==
  analyzeImageWithGemini(file, "AIza-key",
    [platforms |-> <<"AdobeStock">>, generationMode |-> "metadata"], response)

\* C23: with AdobeStock as the single selected platform the categories the AI
\* client computed for an image are stored in the image's result and stand
\* in the Category column of its row of the AdobeStock CSV.
C23_AdobeStockCategoriesExported ==
  (csvOut # None /\ csvFlags = <<FALSE, FALSE, TRUE>>) =>
    \A i \in 1..Len(csvImages) : \A response \in CsvResponses :
      LET img == csvImages[i]
          computed == AdobeStockAnalysis(img.file, response)
      IN (/\ img = [ProcessedAs(img.file, <<"AdobeStock">>, response) EXCEPT !.id = i]
          /\ img.status = "complete"
          /\ ~IsVideoType(img.file))
         => /\ computed.categories # None
            /\ img.result[1].categories = computed.categories
            /\ \E k \in 1..Len(SplitLines(csvOut[1])) :
                 SplitLines(csvOut[1])[k] =
                   Join(<<Quoted(img.file.name), Quoted(CleanTitle(img)),
                          Quoted(JoinedOrEmpty(ResultKeywords(img), <<",", " ">>)),
                          Quoted(Join(computed.categories[1], <<",">>))>>, <<",">>)

\* The number of fields of a CSV line: one more than its delimiters that
\* stand outside double quotes
RECURSIVE DelimitersOutside(_, _, _)
DelimitersOutside(line, delimiter, quoted) ==
  IF line = <<>> THEN 0
  ELSE IF Head(line) = Quote THEN DelimitersOutside(Tail(line), delimiter, ~quoted)
  ELSE (IF Head(line) = delimiter /\ ~quoted THEN 1 ELSE 0)
       + DelimitersOutside(Tail(line), delimiter, quoted)

FieldCount(line, delimiter) == 1 + DelimitersOutside(line, delimiter, FALSE)

\* C24: every data row of a CSV has as many fields as the header row,
\* separated by the header's delimiter (';' for Freepik, ',' otherwise), for
\* images and for videos under every layout.
C24_RowsMatchHeader ==
  csvOut # None =>
    LET lines == SplitLines(csvOut[1])
        delimiter == IF csvFlags[1] THEN ";" ELSE ","
    IN /\ FieldCount(lines[1], delimiter) = IF csvFlags[1] THEN 5 ELSE 4
       /\ \A k \in 2..Len(lines) :
            FieldCount(lines[k], delimiter) = FieldCount(lines[1], delimiter)

\* C25: an invocation of handleProcessImages that returns at a guard (empty
\* key, no pending image, canGenerateMetadata false) changes nothing: no
\* status, no isProcessing, no call of incrementCreditsUsed, no credit; an
\* invocation goes on to incrementCreditsUsed only past the three guards; and
\* when incrementCreditsUsed returns false no status changes, no AI call is
\* made and isProcessing stays as it was.
C25_GuardsChangeNothing ==
  /\ [][rejectedNotices' # rejectedNotices => appVars' = appVars]_vars
  /\ [][\A r \in Runs :
          (runs[r].pc = "idle" /\ runs'[r].pc # "idle")
            => /\ apiKey # ""
               /\ PendingOf(images) # <<>>
               /\ canGenerateMetadata
               /\ runs'[r].pc = "awaitCredits"
               /\ images' = images
               /\ isProcessing' = isProcessing
               /\ profile' = profile]_vars
  /\ [][\A r \in Runs :
          (runs[r].pc = "awaitCredits" /\ runs'[r].canProceed = Some(FALSE))
            => /\ images' = images
               /\ isProcessing' = isProcessing
               /\ runs'[r].log = <<>>
               /\ runs'[r].pc = "done"]_vars

C25_Witness ==
  /\ rejectedNotices = {"Please enter your Gemini API key first", "No images to process"}
  /\ runs[1].canProceed = Some(FALSE)
  /\ runs[2].pc = "idle"
  /\ PendingOf(images) = images
  /\ images # <<>>
  /\ ~isProcessing

\* C26: an invocation that passes its guards calls incrementCreditsUsed once,
\* before it marks any image and before its first AI call, and the credits
\* change only when that call resolves, by one: a batch of n images consumes
\* one credit.
C26_OneCreditPerBatch ==
  /\ [][\A r \in Runs :
          (runs[r].pc = "idle" /\ runs'[r].pc # "idle")
            => /\ runs'[r].pc = "awaitCredits"
               /\ runs'[r].log = <<>>
               /\ images' = images
               /\ profile' = profile]_vars
  /\ [][\A r \in Runs :
          runs'[r].pc = "awaitCredits" => runs[r].pc \in {"idle", "awaitCredits"}]_vars
  /\ [][profile' # profile =>
          /\ profile' = [profile EXCEPT !.credits_used = @ + 1]
          /\ \E r \in Runs :
               /\ runs[r].pc = "awaitCredits"
               /\ runs'[r].pc # "awaitCredits"
               /\ runs'[r].canProceed = Some(TRUE)
               /\ \A q \in Runs \ {r} : runs'[q] = runs[q]]_vars
  /\ [](\A r \in Runs :
          (runs[r].log # <<>> \/ runs[r].pc \in {"awaitAI", "delay"})
            => runs[r].canProceed = Some(TRUE))

C26_Witness ==
  /\ RunCompleted(1)
  /\ Count(runs[1].log, "call") = 3
  /\ runs[2].pc = "idle"
  /\ ~profile.is_premium
  /\ profile.credits_used = FreeLimit

\* C27: an image with status 'complete' has a result and no error message,
\* one with status 'error' an error message and no result, one with status
\* 'pending' or 'processing' neither.
C27_StatusMatchesFields ==
  \A i \in 1..Len(images) :
    /\ images[i].status = "complete" =>
         images[i].result # None /\ ~Truthy(images[i].error)
    /\ images[i].status = "error" =>
         images[i].result = None /\ Truthy(images[i].error)
    /\ images[i].status \in {"pending", "processing"} =>
         images[i].result = None /\ images[i].error = None

C27_Witness ==
  /\ Len(images) = 3
  /\ images[1].status = "complete"
  /\ images[2].status = "error"
  /\ images[3].status = "processing"

\* The call of run r returns in this step
Returns(r) == runs[r].pc = "awaitAI" /\ Len(runs'[r].log) > Len(runs[r].log)

\* C28: the update made when a call returns changes only the entry with the
\* id of the image called: the list keeps its length and its ids, every
\* other entry stays as it is, and an image removed or cleared meanwhile is
\* not inserted again.
C28_UpdateByIdOnly ==
  [][\A r \in Runs :
       Returns(r) =>
         /\ Len(images') = Len(images)
         /\ \A i \in 1..Len(images) :
              /\ images'[i].id = images[i].id
              /\ images'[i].file = images[i].file
              /\ images[i].id # InFlightId(r) => images'[i] = images[i]
         /\ InFlightId(r) \notin ImageIds(images) => images' = images]_vars

C28_Witness ==
  \E r \in Runs :
    /\ runs[r].pc = "done"
    /\ runs[r].log # <<>>
    /\ runs[r].log[Len(runs[r].log)].ev = "return"
    /\ runs[r].log[Len(runs[r].log)].id \notin ImageIds(images)
    /\ \E i \in 1..Len(images) : images[i].status = "pending"

C30_TwoDistinctShutterstock ==
  (catOut # None /\ ~catOut[1].shutterstock.threw) =>
    LET categories == catOut[1].shutterstock.categories
    IN /\ Len(categories) = 2
       /\ categories[1] # categories[2]
       /\ \A k \in 1..Len(categories) :
            \E i \in 1..Len(shutterstockCategories) : shutterstockCategories[i] = categories[k]

====
